---- MODULE Spec2Model ----
(***************************************************************************)
(* Vaultlight: the security shield and the unlock pipeline of the primary  *)
(* app (src/src/app/page.tsx, src/src/core/security/securityShield.ts) and *)
(* of the extension background worker (src/extension/src/background.ts,    *)
(* src/extension/src/shared/security.ts).  Times are epoch milliseconds.   *)
(***************************************************************************)
EXTENDS Integers, Sequences, FiniteSets, Bags, TLC

(* ---------------------------------------------------------------- bounds *)
\* Number of short clock steps (of ShortStep ms) taken within one long step.
MaxShortTicks == 7
\* Number of long clock steps (of LongStep ms).
MaxLongTicks == 1
\* Unlock requests the extension worker may have in flight at once.
MaxInFlight == 2
\* Distinct values one getRandomValues call may return.
MaxDraws == 2
\* Entries of a payload handed to the cipher engine.
MaxPayloadEntries == 2
\* Highest version number a payload or a stored envelope may carry.
MaxVersion == 2

\* persistVault calls of an unlocked session that may be in flight at once.
MaxPersists == 2

\* Pieces of a URL or domain string handed to normalizeHost.
MaxHostPieces == 3

\* Steps of the clock around an idle limit: of a second, and of a second less
\* than five minutes.
MaxSeconds == 2
MaxIdleSteps == 1

\* Ticks of the idle poll of the page looked ahead for the first that locks;
\* five minutes hold thirty of them.
MaxPolls == 31

\* The surfaces a behaviour may drive.  The page and the worker share no state:
\* the page never reads the worker's storage, and the worker learns of the page
\* only through storeEncryptedVault messages, whose envelope is an input.
Surfaces == {"app", "extension"}

\* Master passwords a user may type ("" is the empty input field).
Passwords == {"p1", "p2"}
Inputs == Passwords \cup {""}
\* Master passwords of the session model: one shorter than twelve characters,
\* one of at least twelve.
SessionPasswords == {"p1", "long-secret-01"}
\* crypto.randomUUID() values, entry labels, and what a leak check may yield.
EntryIds == {"e1"}
Labels == {"a"}
LeakOutcomes == {"safe", "rejected"}

Min(a, b) == IF a < b THEN a ELSE b
Max(a, b) == IF a > b THEN a ELSE b

(* ------------------------------------------------------- security shield *)
DEFAULT_SECURITY_STATE ==
  [failedAttempts |-> 0, totalFailures |-> 0, shieldLevel |-> 0,
   lockUntil |-> 0, lastFailure |-> 0, requiresReset |-> FALSE]

\* Ceiling of the shield level.
MaxShieldLevel == 10
\* Total failures that force a reset in the extension.
ExtResetCeiling == 10

\* Mutant: the escalation test is > where the code has >=.
EscalationThresholdStrict == MaxShieldLevel - 6

\* Failures before one escalation step.
EscalationThreshold == 3

\* Mutant: the reset test is > where the code has >=.
AppResetCeilingStrict == ExtResetCeiling + 3

\* Total failures that force a reset in the primary app.
AppResetCeiling == 12
\* Minimum lockout once a reset is required.
ResetLockMillis == 60 * 60 * 1000

\* Mutant: the window no longer grows with the level.
computeBackoffFlat(shieldLevel) ==
  LET baseSeconds == (2 ^ 3) * 5
      clampedSeconds == Min(baseSeconds, 15 * 60)
  IN clampedSeconds * 1000

\* computeBackoffMillis, the same function in both copies of the shield.
computeBackoffMillis(shieldLevel) ==
  LET baseSeconds == (2 ^ (Min(shieldLevel, 6) + 2)) * 5
      clampedSeconds == Min(baseSeconds, 15 * 60)
  IN clampedSeconds * 1000

\* Mutant: a required reset no longer pushes lockUntil an hour out.
recordUnlockFailureNoHour(state, t) ==
  LET counted == [state EXCEPT !.failedAttempts = @ + 1,
                               !.totalFailures = @ + 1,
                               !.lastFailure = t]
      escalated ==
        IF counted.failedAttempts >= EscalationThreshold
        THEN LET level == Min(counted.shieldLevel + 1, MaxShieldLevel)
             IN [counted EXCEPT !.shieldLevel = level,
                                !.failedAttempts = 0,
                                !.lockUntil = t + computeBackoffMillis(level)]
        ELSE counted
  IN IF escalated.totalFailures >= AppResetCeiling
     THEN [escalated EXCEPT !.requiresReset = TRUE]
     ELSE escalated

\* securityShield.ts (primary app); t is the Date.now() it reads.
recordUnlockFailure(state, t) ==
  LET counted == [state EXCEPT !.failedAttempts = @ + 1,
                               !.totalFailures = @ + 1,
                               !.lastFailure = t]
      escalated ==
        IF counted.failedAttempts >= EscalationThreshold
        THEN LET level == Min(counted.shieldLevel + 1, MaxShieldLevel)
             IN [counted EXCEPT !.shieldLevel = level,
                                !.failedAttempts = 0,
                                !.lockUntil = t + computeBackoffMillis(level)]
        ELSE counted
  IN IF escalated.totalFailures >= AppResetCeiling
     THEN [escalated EXCEPT !.requiresReset = TRUE,
                            !.lockUntil = Max(@, t + ResetLockMillis)]
     ELSE escalated

resetSecurityState == DEFAULT_SECURITY_STATE

\* Mutant: an escalation leaves the consecutive count where it was.
deriveFailureKeepCount(previous, t) ==
  LET counted == [previous EXCEPT !.failedAttempts = @ + 1,
                                  !.totalFailures = @ + 1,
                                  !.lastFailure = t]
      escalated ==
        IF counted.failedAttempts >= EscalationThreshold
        THEN LET level == Min(counted.shieldLevel + 1, MaxShieldLevel)
             IN [counted EXCEPT !.shieldLevel = level,
                                !.lockUntil = t + computeBackoffMillis(level)]
        ELSE counted
  IN IF escalated.totalFailures >= ExtResetCeiling
     THEN [escalated EXCEPT !.requiresReset = TRUE,
                            !.lockUntil = Max(@, t + ResetLockMillis)]
     ELSE escalated

\* shared/security.ts (extension); t is the Date.now() it reads.
deriveFailure(previous, t) ==
  LET counted == [previous EXCEPT !.failedAttempts = @ + 1,
                                  !.totalFailures = @ + 1,
                                  !.lastFailure = t]
      escalated ==
        IF counted.failedAttempts >= EscalationThreshold
        THEN LET level == Min(counted.shieldLevel + 1, MaxShieldLevel)
             IN [counted EXCEPT !.shieldLevel = level,
                                !.failedAttempts = 0,
                                !.lockUntil = t + computeBackoffMillis(level)]
        ELSE counted
  IN IF escalated.totalFailures >= ExtResetCeiling
     THEN [escalated EXCEPT !.requiresReset = TRUE,
                            !.lockUntil = Max(@, t + ResetLockMillis)]
     ELSE escalated

resetStoredSecurityState == DEFAULT_SECURITY_STATE

\* The gate both unlock pipelines evaluate before any cryptographic work.
AppGateRequiresReset(sec) == sec.requiresReset

\* Mutant: the lockout comparison is reversed.
AppGateLockedReversed(sec, t) == sec.lockUntil < t

AppGateLocked(sec, t) == sec.lockUntil > t
ExtGateRequiresReset(sec) == sec.requiresReset
ExtGateLocked(sec, t) == sec.lockUntil > t

\* Clock increments offered to the environment: the shortest lockout window
\* and the lockout of a required reset.
ShortStep == computeBackoffMillis(1)
LongStep == ResetLockMillis

(* --------------------------------------------------------- cipher engine *)
\* null (no envelope, no payload) and the absent master secret.
NoVault == [none |-> TRUE]
NoSecret == ""
DEFAULT_VAULT_VERSION == 1
CryptoFailure == [error |-> "crypto"]
\* The error decryptVault throws for a payload of another schema version.
UnsupportedVersion == [error |-> "version"]
\* A cipher call that threw.
Failed(result) == "error" \in DOMAIN result

\* undefined as the value of an optional property.
Undefined == "undefined"

emptyVault == [version |-> DEFAULT_VAULT_VERSION, entries |-> <<>>]

\* JSON.stringify of one object: properties whose value is undefined are left
\* out.
StringifyObject(object) ==
  [k \in {f \in DOMAIN object : object[f] # Undefined} |-> object[k]]

\* Mutant: the entries are written in reverse order.
serializeVaultReversed(payload) ==
  [version |-> payload.version,
   entries |-> [i \in DOMAIN payload.entries |->
                  StringifyObject(payload.entries[Len(payload.entries) + 1 - i])]]

\* JSON.stringify(payload), the plaintext that is encrypted.
serializeVault(payload) ==
  [version |-> payload.version,
   entries |-> [i \in DOMAIN payload.entries |->
                  StringifyObject(payload.entries[i])]]

\* JSON.parse of a plaintext serializeVault produced.
deserializeVault(serialized) == serialized

\* Lengths, in bytes, of the random nonce and salt of one encryption, and the
\* PBKDF2 iteration count.
IvBytes == 12

\* Mutant: the salt is as short as the nonce.
SaltBytesShort == IvBytes

SaltBytes == 16
Iterations == 210000

\* crypto.getRandomValues(new Uint8Array(bytes)): the values it may return.
getRandomValues(bytes, draws) == {[bytes |-> bytes, value |-> v] : v \in 1..draws}

\* PBKDF2-SHA-256 to an AES-GCM key: a key is the same key exactly when
\* password, salt and iteration count are the same.
deriveKey(masterPassword, salt) ==
  [password |-> masterPassword, salt |-> salt, iterations |-> Iterations]

\* AES-GCM: the ciphertext opens under the key and nonce that sealed it, and
\* under no other.
Seal(key, iv, plaintext) == [key |-> key, iv |-> iv, plain |-> plaintext]
Opens(key, iv, cipherText) == cipherText.key = key /\ cipherText.iv = iv

\* encryptVault; salt and iv are the values getRandomValues returned.
encryptVault(masterPassword, payload, salt, iv) ==
  LET key == deriveKey(masterPassword, salt)
      plaintext == serializeVault(payload)
  IN [version |-> DEFAULT_VAULT_VERSION,
      cipherText |-> Seal(key, iv, plaintext),
      iv |-> iv,
      salt |-> salt]

\* Mutant: the authentication tag is not verified.
decryptVaultUnauthenticated(masterPassword, encrypted) ==
  LET payload == deserializeVault(encrypted.cipherText.plain)
  IN IF payload.version # DEFAULT_VAULT_VERSION THEN UnsupportedVersion
     ELSE payload

\* decryptVault, the same function in both copies of the cipher engine.
decryptVault(masterPassword, encrypted) ==
  LET key == deriveKey(masterPassword, encrypted.salt)
  IN IF ~Opens(key, encrypted.iv, encrypted.cipherText) THEN CryptoFailure
     ELSE LET payload == deserializeVault(encrypted.cipherText.plain)
          IN IF payload.version # DEFAULT_VAULT_VERSION THEN UnsupportedVersion
             ELSE payload

\* The default exposure hydrateExposures fills in.
PendingExposure == "pending"

\* Mutant: every entry is set back to the default exposure.
hydrateExposuresAll(entries) ==
  [i \in DOMAIN entries |->
     [k \in DOMAIN entries[i] \cup {"exposure"} |->
        IF k = "exposure" THEN PendingExposure ELSE entries[i][k]]]

\* hydrateExposures, the same function in both copies of the cipher engine.
hydrateExposures(entries) ==
  [i \in DOMAIN entries |->
     IF "exposure" \in DOMAIN entries[i] /\ entries[i].exposure # Undefined
     THEN entries[i]
     ELSE [k \in DOMAIN entries[i] \cup {"exposure"} |->
             IF k = "exposure" THEN PendingExposure ELSE entries[i][k]]]

Hydrated(payload) == [payload EXCEPT !.entries = hydrateExposures(@)]

\* The session model does not depend on which salt and nonce were drawn:
\* one representative of each stands for all of them.
AnySalt == CHOOSE salt \in getRandomValues(SaltBytes, 1) : TRUE
AnyNonce == CHOOSE iv \in getRandomValues(IvBytes, 1) : TRUE

(* --------------------------------------------------------- vault storage *)
\* A stored string JSON.parse rejects.
Unparsable == [unparsable |-> TRUE]

\* hasExistingVault() of the storage module, which vaultExists() returns:
\* the key holds some string.
vaultExists(raw) == raw # NoVault

\* loadEncryptedVault() and loadVaultMeta(): null for a missing or an
\* unparsable record.
loadEncryptedVault(raw) == IF raw = Unparsable THEN NoVault ELSE raw
loadVaultMeta(raw) == IF raw = Unparsable THEN NoVault ELSE raw

\* The VaultMeta a first write creates.  createdAt and updatedAt are only
\* displayed: the model records that they are set, not their values.
FreshMeta == [createdAt |-> "set", updatedAt |-> "set"]
MetaOrFresh(raw) == IF loadVaultMeta(raw) = NoVault THEN FreshMeta ELSE loadVaultMeta(raw)

\* The storage module works on the records of localStorage:
\* store = [vault, meta, security].
saveEncryptedVault(store, record) ==
  [store EXCEPT !.vault = record, !.meta = MetaOrFresh(@)]

\* Mutant: the stamp is never written.
markLastUnlockedNever(store, t) == store

markLastUnlocked(store, t) ==
  [store EXCEPT !.meta =
     [k \in DOMAIN MetaOrFresh(@) \cup {"lastUnlockedAt"} |->
        IF k = "lastUnlockedAt" THEN t ELSE MetaOrFresh(@)[k]]]

clearStoredVault(store) == [store EXCEPT !.vault = NoVault, !.meta = NoVault]

\* Mutant: the metadata record is left in place.
resetVaultKeepsMeta(store) == [store EXCEPT !.vault = NoVault]

\* resetVault of the vault manager.
resetVault(store) == clearStoredVault(store)

(* ---------------------------------------------------- host normalisation *)
\* A URL or domain string is a sequence of pieces: a scheme, "www." labels in
\* either case, a registrable name, a path and spaces.
Pieces == {"https://", "www.", "WWW.", "example.com", "/login", " "}
\* The pieces a hostname may consist of.
HostPieces == {"www.", "WWW.", "example.com"}

\* The strings handed to normalizeHost: the scheme comes first if at all, and
\* a path comes last, after a host.
HostInputs ==
  {value \in UNION {[1..n -> Pieces] : n \in 0..MaxHostPieces} :
     /\ \A i \in DOMAIN value : (value[i] = "https://" => i = 1)
     /\ \A i \in DOMAIN value :
          (value[i] = "/login" =>
             (i = Len(value) /\ i > 1 /\ value[i - 1] \in HostPieces))}

\* null, and a host string returned.
NoHost == [null |-> TRUE]
HostOf(pieces) == [host |-> pieces]
\* new URL(...) threw.
InvalidURL == <<"TypeError">>

toLowerCase(value) ==
  [i \in DOMAIN value |-> IF value[i] = "WWW." THEN "www." ELSE value[i]]

RECURSIVE trimStart(_)
trimStart(value) ==
  IF value # <<>> /\ value[1] = " " THEN trimStart(Tail(value)) ELSE value

RECURSIVE trimEnd(_)
trimEnd(value) ==
  IF value # <<>> /\ value[Len(value)] = " "
  THEN trimEnd(SubSeq(value, 1, Len(value) - 1))
  ELSE value

trim(value) == trimEnd(trimStart(value))

\* value.includes("://")
includesScheme(value) == \E i \in DOMAIN value : value[i] = "https://"

\* new URL(value).hostname: the parser strips spaces around the string, reads
\* the scheme and then the host up to the path; it throws without a scheme,
\* with an empty host and with a space in the host, and lower-cases the host.
URLHostname(value) ==
  LET stripped == trim(value)
  IN IF stripped = <<>> \/ stripped[1] # "https://" THEN InvalidURL
     ELSE LET rest == Tail(stripped)
              paths == {i \in DOMAIN rest : rest[i] = "/login"}
              authority == IF paths = {} THEN rest
                           ELSE SubSeq(rest, 1, (CHOOSE i \in paths :
                                                   \A j \in paths : i <= j) - 1)
          IN IF authority = <<>> \/ (\E i \in DOMAIN authority :
                                       authority[i] \notin HostPieces)
             THEN InvalidURL
             ELSE toLowerCase(authority)

\* host.startsWith("www.") ? host.slice(4) : host
stripWww(host) ==
  IF host # <<>> /\ host[1] = "www." THEN Tail(host) ELSE host

\* normalizeHost of the page (url.ts:1-17).
normalizeHost(value) ==
  IF value = <<>> THEN NoHost
  ELSE LET hostname == URLHostname(IF includesScheme(value) THEN value
                                   ELSE <<"https://">> \o value)
       IN IF hostname # InvalidURL
          THEN HostOf(stripWww(toLowerCase(hostname)))
          ELSE LET sanitized == toLowerCase(trim(value))
               IN IF sanitized = <<>> THEN NoHost
                  ELSE \* replace(/^[^a-z0-9]+/i, ""): of the pieces, only the
                       \* space begins with neither letter nor digit here
                       LET host == trimStart(sanitized)
                       IN IF host # <<>> /\ host[1] = "www." THEN HostOf(stripWww(host))
                          ELSE IF host = <<>> THEN NoHost
                          ELSE HostOf(host)

\* normalizeHost of the background worker (background.ts:61-74).
ExtNormalizeHost(value) ==
  IF value = <<>> THEN NoHost
  ELSE LET trimmed == trim(value)
       IN IF trimmed = <<>> THEN NoHost
          ELSE LET hostname == URLHostname(IF includesScheme(trimmed) THEN trimmed
                                           ELSE <<"https://">> \o trimmed)
               IN IF hostname # InvalidURL
                  THEN HostOf(stripWww(toLowerCase(hostname)))
                  ELSE LET fallback == trimStart(toLowerCase(trimmed))
                       IN IF fallback = <<>> THEN NoHost
                          ELSE HostOf(stripWww(fallback))

\* normalizeHost as the copy named implements it.
NormalizeHostOf(copy, value) ==
  IF copy = "app" THEN normalizeHost(value) ELSE ExtNormalizeHost(value)

(* ----------------------------------------------------------------- state *)
\* Envelopes the page may hold and hand to the worker.
Envelopes == {encryptVault(p, emptyVault, AnySalt, AnyNonce) : p \in Passwords}

VARIABLES
  now,                 \* Date.now()
  surface,             \* the surface this behaviour drives
  \* primary app
  appEnvelope,         \* localStorage "vaultlight.encrypted-vault"
  appMeta,             \* localStorage "vaultlight.meta"
  appSec,              \* localStorage "vaultlight.security-shield"
  stage,               \* Stage
  hasExistingVault,    \* React state
  masterSecretRef,     \* masterSecretRef.current
  vaultRef,            \* vaultRef.current
  isUnlocking,         \* React state, disables the unlock button
  unlockError,         \* which message handleUnlock last set
  appPending,          \* the awaited call of handleUnlock, with its closure
  appPersists,         \* bag of awaited persistVault calls of the unlocked session
  checkingEntries,     \* React state: ids with a leak check running
  isSavingEntry,       \* React state, disables the save button
  masterChangeError,   \* which message handleRotateMasterPassword last set
  autoLockMinutes,     \* userSettings.autoLockMinutes
  lastInteractionRef,  \* lastInteractionRef.current
  pollStart,           \* when the interval of the auto-lock effect was set
  \* extension background worker
  extensionDisabled,   \* EXTENSION_DISABLED of the build
  extStoredVault,      \* chrome.storage.local "vaultlight.encryptedVault"
  extStoredSecurity,   \* chrome.storage.local "vaultlight.securityShield"
  encryptedVault,      \* module variable
  decryptedVault,      \* module variable
  masterSecret,        \* module variable
  securityState,       \* module variable
  extInFlight,         \* bag of awaited decryptVault calls of unlock requests,
                       \* each with whether a lock was processed since
  extTabCalls,         \* awaited chrome.tabs calls of fillEntry and generateRegistration
  extResponse,         \* the last response sent
  lockTimer,           \* module variable: the handle, named by its due time
  extTimers,           \* due times of the timeouts pending in the worker
  \* both surfaces
  notice,              \* the lock toast or lock-notice this step sent
  handled,             \* the request whose handler ended in this step
  \* history
  escalationWindow,    \* lockUntil - now as the latest escalation set it
  \* cipher engine on its own
  cipher,              \* the last encryptVault / decryptVault call and its result
  \* host normalisation on its own
  hostCall,            \* the last normalizeHost call and its result
  \* password generator on its own
  generated            \* the last generatePassword call and its result

sessionVars == <<appPersists, checkingEntries, isSavingEntry, masterChangeError>>
appVars == <<appEnvelope, appMeta, appSec, stage, hasExistingVault, masterSecretRef,
             vaultRef, isUnlocking, unlockError, appPending, sessionVars>>
extVars == <<extStoredVault, extStoredSecurity, encryptedVault, decryptedVault,
             masterSecret, securityState, extInFlight, extResponse>>
pureVars == <<cipher, hostCall, generated>>
appTimerVars == <<autoLockMinutes, lastInteractionRef, pollStart>>
extTimerVars == <<lockTimer, extTimers>>
vars == <<now, surface, appVars, appTimerVars, extensionDisabled, extVars, extTimerVars,
          extTabCalls, notice, handled, escalationWindow, pureVars>>

\* The records of localStorage the storage module and the shield work on.
AppStorage == [vault |-> appEnvelope, meta |-> appMeta, security |-> appSec]

\* Records found in localStorage when the page is loaded.
StoredAtLoad == {NoVault, Unparsable}

\* Mutant: a success clears the consecutive count and the lockout only.
recordUnlockSuccessPartial ==
  [appSec EXCEPT !.failedAttempts = 0, !.lockUntil = 0]

\* securityShield.ts (primary app)
recordUnlockSuccess == DEFAULT_SECURITY_STATE

\* Mutant: a success clears the consecutive count and the lockout only.
deriveSuccessPartial ==
  [securityState EXCEPT !.failedAttempts = 0, !.lockUntil = 0]

\* shared/security.ts (extension)
deriveSuccess == DEFAULT_SECURITY_STATE

\* setStage(exists ? "locked" : "creating")
StageAfter(exists) == IF exists THEN "locked" ELSE "creating"

NoPending == [op |-> "none"]
NoResponse == [success |-> TRUE, error |-> "", type |-> "none"]
\* No cipher call made yet.
CipherIdle ==
  [op |-> "none", password |-> "", payload |-> NoVault, envelope |-> NoVault,
   attempt |-> "", result |-> NoVault, hydrated |-> NoVault]
\* No normalizeHost call made yet.
HostIdle == [op |-> "none"]
GeneratorIdle == [op |-> "none"]

\* No timer set, and no notice sent.
NoTimer == 0 - 1
NoNotice == "none"
\* No handler of the worker ended; one ended, having called sendResponse
\* that many times.
NotHandled == [type |-> "none", responses |-> 0]
Handled(type, responses) == handled' = [type |-> type, responses |-> responses]
\* DEFAULT_SETTINGS.autoLockMinutes
DefaultAutoLockMinutes == 5

\* The state once the page or the worker is loaded over the records found.
InitFrom(stored) ==
  /\ now = 0
  /\ surface \in Surfaces
  /\ appEnvelope \in (IF surface = "app" THEN stored ELSE {NoVault})
  /\ appMeta \in (IF surface = "app" THEN StoredAtLoad ELSE {NoVault})
  /\ appSec = DEFAULT_SECURITY_STATE
  /\ stage = StageAfter(vaultExists(appEnvelope))
  /\ hasExistingVault = vaultExists(appEnvelope)
  /\ masterSecretRef = NoSecret
  /\ vaultRef = NoVault
  /\ isUnlocking = FALSE
  /\ unlockError = "none"
  /\ appPending = NoPending
  /\ appPersists = EmptyBag
  /\ checkingEntries = {}
  /\ isSavingEntry = FALSE
  /\ masterChangeError = "none"
  /\ autoLockMinutes = DefaultAutoLockMinutes
  /\ lastInteractionRef = 0
  /\ pollStart = NoTimer
  /\ lockTimer = NoTimer
  /\ extTimers = {}
  /\ notice = NoNotice
  /\ handled = NotHandled
  /\ extensionDisabled \in (IF surface = "extension" THEN BOOLEAN ELSE {TRUE})
  /\ extStoredVault = NoVault
  /\ extStoredSecurity = DEFAULT_SECURITY_STATE
  /\ encryptedVault = NoVault
  /\ decryptedVault = NoVault
  /\ masterSecret = NoSecret
  /\ securityState = DEFAULT_SECURITY_STATE
  /\ extInFlight = EmptyBag
  /\ extTabCalls = {}
  /\ extResponse = NoResponse
  /\ escalationWindow = 0
  /\ cipher = CipherIdle
  /\ hostCall = HostIdle

Init == InitFrom(StoredAtLoad) /\ generated = GeneratorIdle

(* ---------------------------------------------------------------- timers *)
\* The period of the idle poll of the page, and the idle time of the worker.
PollMillis == 10000
AUTO_LOCK_MS == 5 * 60 * 1000
\* autoLockMs of the page
autoLockMs == autoLockMinutes * 60 * 1000

\* Mutant: the poll locks one period early.
AppPollLocksEarly(t) == t - lastInteractionRef >= autoLockMs - PollMillis

\* elapsed >= autoLockMs at a tick of the interval at time t (page.tsx:377-379)
AppPollLocks(t) == t - lastInteractionRef >= autoLockMs

\* The ticks of the interval from now on that will lock; a tick before the
\* first of them changes nothing.
AppLockingPolls ==
  IF pollStart = NoTimer THEN {}
  ELSE LET next == Max(1, (now - pollStart + PollMillis - 1) \div PollMillis)
       IN {t \in {pollStart + k * PollMillis : k \in next..(next + MaxPolls - 1)} :
             AppPollLocks(t)}

\* The times at which a pending timer acts.
TimersDue == extTimers \cup AppLockingPolls

\* registerInteraction (page.tsx:320-322)
registerInteraction == lastInteractionRef' = now

\* The effects on stage, lockVault and autoLockMs (page.tsx:229-233, 342-398):
\* a run in the unlocked stage registers an interaction and sets the interval,
\* the cleanup of the run before it clears the interval.
AutoLockEffect ==
  IF stage' = "unlocked"
  THEN IF \/ stage # "unlocked"
          \/ hasExistingVault' # hasExistingVault
          \/ autoLockMinutes' # autoLockMinutes
       THEN registerInteraction /\ pollStart' = now
       ELSE UNCHANGED <<lastInteractionRef, pollStart>>
  ELSE pollStart' = NoTimer /\ UNCHANGED lastInteractionRef

\* Mutant: the timeout set before is left pending.
scheduleLockKeepsOld ==
  /\ lockTimer' = now + AUTO_LOCK_MS
  /\ extTimers' = extTimers \cup {now + AUTO_LOCK_MS}

\* scheduleLock (background.ts:187-194)
scheduleLock ==
  /\ lockTimer' = now + AUTO_LOCK_MS
  /\ extTimers' = (extTimers \ {lockTimer}) \cup {now + AUTO_LOCK_MS}

\* if (lockTimer) { clearTimeout(lockTimer); lockTimer = undefined; }
clearLockTimer ==
  /\ extTimers' = extTimers \ {lockTimer}
  /\ lockTimer' = NoTimer

\* A step that sends no lock toast and no lock-notice.
Quiet == notice' = NoNotice
\* A step that also ends no handler of the worker.
Silent == Quiet /\ handled' = NotHandled

(* ----------------------------------------------------------------- clock *)
\* The clock moves on by step, or up to the next time a timer acts if that is
\* sooner; a timer that is due acts first, and an awaited call settles before
\* the clock moves.
Advance(step) ==
  /\ appPending = NoPending
  /\ appPersists = EmptyBag
  /\ extInFlight = EmptyBag
  /\ extTabCalls = {}
  /\ \A due \in TimersDue : due > now
  /\ now' = IF \E due \in TimersDue : due < now + step
            THEN CHOOSE due \in TimersDue : \A other \in TimersDue : due <= other
            ELSE now + step
  /\ Silent
  /\ UNCHANGED <<surface, pureVars, appVars, appTimerVars, extensionDisabled, extVars,
                 extTimerVars, extTabCalls, escalationWindow>>

\* The clock moves in steps far longer than a key derivation, in sessions
\* that are locked or used again before an idle timer acts.
Tick ==
  \/ /\ (now % LongStep) \div ShortStep < MaxShortTicks
     /\ \A due \in TimersDue : now + ShortStep <= due
     /\ Advance(ShortStep)
  \/ /\ now \div LongStep < MaxLongTicks
     /\ \A due \in TimersDue : now + LongStep <= due
     /\ Advance(LongStep)

\* The window of the latest escalation, once the shield state went from
\* previous to next at time t: an escalation is a failure that leaves
\* failedAttempts at 0; the zero state has no window.
WindowAfter(previous, next, t) ==
  IF next = DEFAULT_SECURITY_STATE THEN 0
  ELSE IF next.totalFailures # previous.totalFailures /\ next.failedAttempts = 0
  THEN next.lockUntil - t
  ELSE escalationWindow

(* ----------------------------------------------------------- primary app *)

\* The effect on stage (page.tsx:235-242): leaving the unlocked stage clears
\* the message of the rotation form.
StageEffect ==
  masterChangeError' = IF stage' # stage /\ stage' # "unlocked" THEN "none"
                       ELSE masterChangeError

\* The early returns of handleUnlock (page.tsx:419-442): a message, a stage,
\* and nothing else.
AppRefuseUnlock(message, nextStage) ==
  /\ unlockError' = message
  /\ stage' = nextStage
  /\ UNCHANGED <<appSec, appMeta, masterSecretRef, vaultRef, isUnlocking,
                 appPending, escalationWindow>>

\* handleUnlock up to its first suspension (page.tsx:418-447).
AppHandleUnlock(masterInput, masterConfirm) ==
  /\ surface = "app"
  /\ stage \in {"creating", "locked"}
  /\ ~isUnlocking
  /\ UNCHANGED <<now, surface, pureVars, appEnvelope, hasExistingVault,
                 extensionDisabled, extVars,
                 appPersists, checkingEntries, isSavingEntry>>
  /\ IF masterInput = ""
     THEN AppRefuseUnlock("empty", stage)
     ELSE IF stage = "creating" /\ masterInput # masterConfirm
     THEN AppRefuseUnlock("mismatch", stage)
     ELSE IF AppGateRequiresReset(appSec)
     THEN AppRefuseUnlock("shieldReset", StageAfter(hasExistingVault))
     ELSE IF AppGateLocked(appSec, now)
     THEN AppRefuseUnlock("shieldLocked", stage)
     ELSE /\ isUnlocking' = TRUE
          /\ unlockError' = "none"
          /\ UNCHANGED <<appSec, escalationWindow>>
          /\ IF loadEncryptedVault(appEnvelope) = NoVault
             THEN \* unlockVault returns a fresh vault; persistVault is awaited
                  /\ appMeta' = markLastUnlocked(AppStorage, now).meta
                  /\ masterSecretRef' = masterInput
                  /\ vaultRef' = emptyVault
                  /\ stage' = "unlocked"
                  /\ appPending' = [op |-> "persist", pw |-> masterInput,
                                    payload |-> emptyVault,
                                    hasExisting |-> hasExistingVault]
             ELSE \* unlockVault awaits decryptVault
                  /\ appPending' = [op |-> "decrypt", pw |-> masterInput,
                                    encrypted |-> loadEncryptedVault(appEnvelope),
                                    hasExisting |-> hasExistingVault]
                  /\ UNCHANGED <<appMeta, stage, masterSecretRef, vaultRef>>
  /\ StageEffect
  /\ UNCHANGED <<autoLockMinutes, extTimerVars, extTabCalls>>
  /\ Silent
  /\ AutoLockEffect

\* The catch and finally blocks of handleUnlock (page.tsx:463-484).
AppUnlockCaught ==
  LET updatedSecurity == recordUnlockFailure(appSec, now)
  IN /\ appSec' = updatedSecurity
     /\ escalationWindow' = WindowAfter(appSec, updatedSecurity, now)
     /\ unlockError' = IF updatedSecurity.requiresReset THEN "invalidReset"
                       ELSE IF updatedSecurity.lockUntil > now THEN "invalidLocked"
                       ELSE "invalid"
     /\ stage' = StageAfter(appPending.hasExisting)
     /\ isUnlocking' = FALSE
     /\ appPending' = NoPending

\* handleUnlock resumes after decryptVault settled (page.tsx:447-462).
AppUnlockDecrypted ==
  /\ surface = "app"
  /\ appPending.op = "decrypt"
  /\ UNCHANGED <<now, surface, pureVars, appEnvelope, hasExistingVault, extensionDisabled, extVars,
                 appPersists, checkingEntries, isSavingEntry>>
  /\ LET result == decryptVault(appPending.pw, appPending.encrypted)
     IN IF Failed(result)
        THEN /\ AppUnlockCaught
             /\ UNCHANGED <<appMeta, masterSecretRef, vaultRef>>
        ELSE /\ appMeta' = markLastUnlocked(AppStorage, now).meta
             /\ masterSecretRef' = appPending.pw
             /\ vaultRef' = Hydrated(result)
             /\ stage' = "unlocked"
             /\ appSec' = recordUnlockSuccess
             /\ escalationWindow' = WindowAfter(appSec, recordUnlockSuccess, now)
             /\ unlockError' = "none"
             /\ isUnlocking' = FALSE
             /\ appPending' = NoPending
  /\ StageEffect
  /\ UNCHANGED <<autoLockMinutes, extTimerVars, extTabCalls>>
  /\ Silent
  /\ AutoLockEffect

\* handleUnlock resumes after the first persistVault of a new vault settled.
AppUnlockPersisted(ok) ==
  /\ surface = "app"
  /\ appPending.op = "persist"
  /\ UNCHANGED <<now, surface, pureVars, masterSecretRef, vaultRef, extensionDisabled, extVars,
                 appPersists, checkingEntries, isSavingEntry>>
  /\ IF ok
     THEN /\ LET encrypted == encryptVault(appPending.pw, appPending.payload,
                                            AnySalt, AnyNonce)
                  saved == saveEncryptedVault(AppStorage, encrypted)
             IN appEnvelope' = saved.vault /\ appMeta' = saved.meta
          /\ hasExistingVault' = TRUE
          /\ appSec' = recordUnlockSuccess
          /\ escalationWindow' = WindowAfter(appSec, recordUnlockSuccess, now)
          /\ isUnlocking' = FALSE
          /\ appPending' = NoPending
          /\ UNCHANGED <<stage, unlockError>>
     ELSE /\ AppUnlockCaught
          /\ UNCHANGED <<appEnvelope, appMeta, hasExistingVault>>
  /\ StageEffect
  /\ UNCHANGED <<autoLockMinutes, extTimerVars, extTabCalls>>
  /\ Silent
  /\ AutoLockEffect

\* Mutant: the decrypted payload stays in memory.
lockVaultKeepsPayload(store, message) ==
  /\ masterSecretRef' = NoSecret
  /\ UNCHANGED vaultRef
  /\ hasExistingVault' = vaultExists(store.vault)
  /\ stage' = StageAfter(vaultExists(store.vault))
  /\ notice' = message
  /\ handled' = NotHandled

\* lockVault of the page (page.tsx:324-340) over the records in storage.
lockVault(store, message) ==
  /\ masterSecretRef' = NoSecret
  /\ vaultRef' = NoVault
  /\ hasExistingVault' = vaultExists(store.vault)
  /\ stage' = StageAfter(vaultExists(store.vault))
  /\ notice' = message
  /\ handled' = NotHandled

\* What a call of lockVault leaves alone.
LockVaultFrame ==
  UNCHANGED <<now, surface, pureVars, appEnvelope, appMeta, appSec, isUnlocking,
              unlockError, appPending, autoLockMinutes, extensionDisabled, extVars,
              extTimerVars, extTabCalls, appPersists, checkingEntries, isSavingEntry,
              escalationWindow>>

\* The lock button of the unlocked view (page.tsx:1246-1250).
AppLockVault ==
  /\ surface = "app"
  /\ stage = "unlocked"
  /\ lockVault(AppStorage, "Vault locked.")
  /\ LockVaultFrame
  /\ StageEffect
  /\ AutoLockEffect

\* Mutant: a hidden tab locks only once the idle limit has passed.
AppHandleVisibilityWhenIdle(hidden) ==
  /\ surface = "app"
  /\ stage = "unlocked"
  /\ IF hidden /\ AppPollLocks(now)
     THEN /\ lockVault(AppStorage, "Vault locked automatically (tab hidden).")
          /\ LockVaultFrame
          /\ StageEffect
          /\ AutoLockEffect
     ELSE /\ registerInteraction
          /\ Silent
          /\ UNCHANGED <<now, surface, pureVars, appVars, autoLockMinutes, pollStart,
                         extensionDisabled, extVars, extTimerVars, extTabCalls,
                         escalationWindow>>

\* handleVisibility (page.tsx:353-359), listening while unlocked.
AppHandleVisibility(hidden) ==
  /\ surface = "app"
  /\ stage = "unlocked"
  /\ IF hidden
     THEN /\ lockVault(AppStorage, "Vault locked automatically (tab hidden).")
          /\ LockVaultFrame
          /\ StageEffect
          /\ AutoLockEffect
     ELSE /\ registerInteraction
          /\ Silent
          /\ UNCHANGED <<now, surface, pureVars, appVars, autoLockMinutes, pollStart,
                         extensionDisabled, extVars, extTimerVars, extTabCalls, escalationWindow>>

\* handleActivity (page.tsx:349-351): a key, pointer, touch or wheel event
\* while unlocked.
AppHandleActivity ==
  /\ surface = "app"
  /\ stage = "unlocked"
  /\ lastInteractionRef # now
  /\ registerInteraction
  /\ Silent
  /\ UNCHANGED <<now, surface, pureVars, appVars, autoLockMinutes, pollStart,
                 extensionDisabled, extVars, extTimerVars, extTabCalls, escalationWindow>>

\* A tick of the interval of the auto-lock effect that locks
\* (page.tsx:376-382); a tick that finds less idle time changes nothing.
AppIdlePoll ==
  /\ surface = "app"
  /\ now \in AppLockingPolls
  /\ lockVault(AppStorage, "Vault locked automatically after inactivity.")
  /\ LockVaultFrame
  /\ StageEffect
  /\ AutoLockEffect

\* The settings are loaded, on mount or on a storage event (page.tsx:178-197).
AppLoadSettings(minutes) ==
  /\ surface = "app"
  /\ stage # "unlocked"
  /\ minutes # autoLockMinutes
  /\ autoLockMinutes' = minutes
  /\ Silent
  /\ UNCHANGED <<now, surface, pureVars, appVars, lastInteractionRef, pollStart,
                 extensionDisabled, extVars, extTimerVars, extTabCalls, escalationWindow>>

\* handleResetVault (page.tsx:495-504), the confirmation accepted.
AppHandleResetVault ==
  /\ surface = "app"
  /\ stage \in {"locked", "unlocked"}
  /\ hasExistingVault
  /\ appEnvelope' = resetVault(AppStorage).vault
  /\ appMeta' = resetVault(AppStorage).meta
  /\ appSec' = resetSecurityState
  /\ escalationWindow' = WindowAfter(appSec, resetSecurityState, now)
  /\ lockVault(resetVault(AppStorage), "Vault reset.")
  /\ UNCHANGED <<now, surface, pureVars, isUnlocking, unlockError, appPending,
                 autoLockMinutes, extensionDisabled, extVars, extTimerVars, extTabCalls,
                 appPersists, checkingEntries, isSavingEntry>>
  /\ StageEffect
  /\ AutoLockEffect

(* ------------------------------------------ primary app, unlocked session *)
\* Both refs are set: the test the session handlers begin with.
RefsSet == vaultRef # NoVault /\ masterSecretRef # NoSecret

\* initializeVaultEntry as handleSaveEntry calls it, the notes left empty.
initializeVaultEntry(id, label) ==
  [id |-> id, label |-> label, notes |-> Undefined, exposure |-> PendingExposure]

EntryIdsOf(payload) == {payload.entries[i].id : i \in DOMAIN payload.entries}

\* { ...existing, [property]: value } for each property of changes.
Spread(existing, changes) ==
  [k \in DOMAIN existing \cup DOMAIN changes |->
     IF k \in DOMAIN changes THEN changes[k] ELSE existing[k]]

\* The transforms handed to applyVaultUpdate.
MapEntry(current, id, changes) ==
  [current EXCEPT !.entries =
     [i \in DOMAIN @ |-> IF @[i].id = id THEN Spread(@[i], changes) ELSE @[i]]]
PrependEntry(current, entry) == [current EXCEPT !.entries = <<entry>> \o @]
FilterEntry(current, id) ==
  [current EXCEPT !.entries = SelectSeq(@, LAMBDA entry : entry.id # id)]

\* An awaited persistVault call: what it will write, and the handler that
\* resumes when it settles.
PersistCall(kind, id, masterPassword, payload) ==
  [kind |-> kind, id |-> id, pw |-> masterPassword, payload |-> payload]

\* applyVaultUpdate up to its await (page.tsx:400-411), refs set.
applyVaultUpdate(next, kind, id) ==
  /\ vaultRef' = next
  /\ appPersists' = appPersists (+) SetToBag({PersistCall(kind, id, masterSecretRef, next)})

\* Ids that stand for UUIDs already drawn and still in use somewhere.
IdsInUse ==
  EntryIdsOf(vaultRef) \cup checkingEntries
    \cup {call.id : call \in BagToSet(appPersists)}

\* handleSaveEntry up to its first await (page.tsx:712-782): an edit of the
\* entry being edited, or a new entry.
AppHandleSaveEntry(id, label) ==
  /\ surface = "app"
  /\ stage = "unlocked"
  /\ RefsSet
  /\ ~isSavingEntry
  /\ BagCardinality(appPersists) < MaxPersists
  /\ isSavingEntry' = TRUE
  /\ IF id \in EntryIdsOf(vaultRef)
     THEN applyVaultUpdate(
            MapEntry(vaultRef, id, [label |-> label, notes |-> Undefined,
                                    exposure |-> PendingExposure]),
            "save", id)
     ELSE /\ id \notin IdsInUse
          /\ applyVaultUpdate(
               PrependEntry(vaultRef, initializeVaultEntry(id, label)), "save", id)
  /\ UNCHANGED <<now, surface, pureVars, appEnvelope, appMeta, appSec, stage,
                 hasExistingVault, masterSecretRef, isUnlocking, unlockError,
                 appPending, checkingEntries, masterChangeError,
                 extensionDisabled, extVars, escalationWindow>>
  /\ Silent
  /\ UNCHANGED <<appTimerVars, extTimerVars, extTabCalls>>

\* handleDeleteEntry (page.tsx:809-826), the confirmation accepted.
AppHandleDeleteEntry(id) ==
  /\ surface = "app"
  /\ stage = "unlocked"
  /\ RefsSet
  /\ id \in EntryIdsOf(vaultRef)
  /\ BagCardinality(appPersists) < MaxPersists
  /\ applyVaultUpdate(FilterEntry(vaultRef, id), "delete", id)
  /\ UNCHANGED <<now, surface, pureVars, appEnvelope, appMeta, appSec, stage,
                 hasExistingVault, masterSecretRef, isUnlocking, unlockError,
                 appPending, checkingEntries, isSavingEntry, masterChangeError,
                 extensionDisabled, extVars, escalationWindow>>
  /\ Silent
  /\ UNCHANGED <<appTimerVars, extTimerVars, extTabCalls>>

\* The finally blocks of queueLeakCheck and handleSaveEntry.
LeakCheckFinally(id) ==
  /\ checkingEntries' = checkingEntries \ {id}
  /\ isSavingEntry' = FALSE

\* The catch block of queueLeakCheck (page.tsx:680-703): the warning is applied,
\* or applyVaultUpdate throws for want of the refs.
LeakCheckCaught(id, persists) ==
  IF RefsSet
  THEN /\ vaultRef' = MapEntry(vaultRef, id, [exposure |-> "warning"])
       /\ appPersists' = persists (+) SetToBag({PersistCall("warn", id, masterSecretRef,
                                       MapEntry(vaultRef, id, [exposure |-> "warning"]))})
       /\ UNCHANGED <<checkingEntries, isSavingEntry>>
  ELSE /\ appPersists' = persists
       /\ LeakCheckFinally(id)
       /\ UNCHANGED vaultRef

\* queueLeakCheck resumes after checkPasswordAgainstLeaks settled
\* (page.tsx:667-703).
AppLeakCheckSettled(id, outcome) ==
  /\ surface = "app"
  /\ id \in checkingEntries
  /\ \A call \in BagToSet(appPersists) : ~(call.id = id /\ call.kind \in {"leak", "warn"})
  /\ BagCardinality(appPersists) < MaxPersists
  /\ IF outcome = "safe" /\ RefsSet
     THEN /\ applyVaultUpdate(MapEntry(vaultRef, id, [exposure |-> "safe"]), "leak", id)
          /\ UNCHANGED <<checkingEntries, isSavingEntry>>
     ELSE LeakCheckCaught(id, appPersists)
  /\ UNCHANGED <<now, surface, pureVars, appEnvelope, appMeta, appSec, stage,
                 hasExistingVault, masterSecretRef, isUnlocking, unlockError,
                 appPending, masterChangeError,
                 extensionDisabled, extVars, escalationWindow>>
  /\ Silent
  /\ UNCHANGED <<appTimerVars, extTimerVars, extTabCalls>>

\* Mutant: the secret is swapped when the rotation is submitted.
AppRotateSwapFirst(next) ==
  /\ appPersists' = appPersists (+) SetToBag({PersistCall("rotate", "", next, vaultRef)})
  /\ masterSecretRef' = next
  /\ UNCHANGED masterChangeError

\* handleRotateMasterPassword past its checks (page.tsx:640-641): persistVault
\* under the new password is awaited.
AppRotateSubmit(next) ==
  /\ appPersists' = appPersists (+) SetToBag({PersistCall("rotate", "", next, vaultRef)})
  /\ UNCHANGED <<masterSecretRef, masterChangeError>>

\* Mutant: the shortest password of the session is long enough.
MinMasterLengthShort == Len("p1")

\* The least length of a new master password (page.tsx:628).
MinMasterLength == 12

\* The early returns of handleRotateMasterPassword (page.tsx:620-639).
AppRefuseRotation(message) ==
  /\ masterChangeError' = message
  /\ UNCHANGED <<masterSecretRef, appPersists>>

\* handleRotateMasterPassword up to its await (page.tsx:619-641); the button
\* is disabled while either field is empty.
AppHandleRotateMasterPassword(next, confirm) ==
  /\ surface = "app"
  /\ stage = "unlocked"
  /\ next # "" /\ confirm # ""
  /\ IF ~RefsSet
     THEN AppRefuseRotation("notUnlocked")
     ELSE IF Len(next) < MinMasterLength
     THEN AppRefuseRotation("short")
     ELSE IF next # confirm
     THEN AppRefuseRotation("mismatch")
     ELSE IF next = masterSecretRef
     THEN AppRefuseRotation("same")
     ELSE /\ BagCardinality(appPersists) < MaxPersists
          /\ AppRotateSubmit(next)
  /\ UNCHANGED <<now, surface, pureVars, appEnvelope, appMeta, appSec, stage,
                 hasExistingVault, vaultRef, isUnlocking, unlockError,
                 appPending, checkingEntries, isSavingEntry,
                 extensionDisabled, extVars, escalationWindow>>
  /\ Silent
  /\ UNCHANGED <<appTimerVars, extTimerVars, extTabCalls>>

\* persistVault (part_001:44-50) settles: the envelope is written unless
\* encryption or storage threw, and the handler that awaited it resumes.
AppPersistSettled(call, ok, leakChecksEnabled) ==
  /\ surface = "app"
  /\ call \in BagToSet(appPersists)
  /\ LET persists == appPersists (-) SetToBag({call})
         saved == saveEncryptedVault(AppStorage,
                    encryptVault(call.pw, call.payload, AnySalt, AnyNonce))
     IN /\ appEnvelope' = IF ok THEN saved.vault ELSE appEnvelope
        /\ appMeta' = IF ok THEN saved.meta ELSE appMeta
        /\ CASE call.kind = "save" ->
                  /\ appPersists' = persists
                  /\ checkingEntries' = IF ok /\ leakChecksEnabled
                                        THEN checkingEntries \cup {call.id}
                                        ELSE checkingEntries
                  /\ isSavingEntry' = (ok /\ leakChecksEnabled)
                  /\ UNCHANGED <<vaultRef, masterSecretRef, masterChangeError>>
             [] call.kind = "delete" ->
                  /\ appPersists' = persists
                  /\ UNCHANGED <<vaultRef, masterSecretRef, masterChangeError,
                                 checkingEntries, isSavingEntry>>
             [] call.kind = "leak" ->
                  /\ IF ok
                     THEN /\ appPersists' = persists
                          /\ LeakCheckFinally(call.id)
                          /\ UNCHANGED vaultRef
                     ELSE LeakCheckCaught(call.id, persists)
                  /\ UNCHANGED <<masterSecretRef, masterChangeError>>
             [] call.kind = "warn" ->
                  /\ appPersists' = persists
                  /\ LeakCheckFinally(call.id)
                  /\ UNCHANGED <<vaultRef, masterSecretRef, masterChangeError>>
             [] call.kind = "rotate" ->
                  /\ appPersists' = persists
                  /\ masterSecretRef' = IF ok THEN call.pw ELSE masterSecretRef
                  /\ masterChangeError' = IF ok THEN "none" ELSE "failed"
                  /\ UNCHANGED <<vaultRef, checkingEntries, isSavingEntry>>
  /\ UNCHANGED <<now, surface, pureVars, appSec, stage, hasExistingVault,
                 isUnlocking, unlockError, appPending,
                 extensionDisabled, extVars, escalationWindow>>
  /\ Silent
  /\ IF ok THEN registerInteraction ELSE UNCHANGED lastInteractionRef
  /\ UNCHANGED <<autoLockMinutes, pollStart, extTimerVars, extTabCalls>>

(* ------------------------------------------------- extension background *)
Reply(type, ok, err) == [success |-> ok, error |-> err, type |-> type]

MessageTypes ==
  {"storeEncryptedVault", "getStatus", "unlock", "lock", "getEntries", "fillEntry",
   "generateRegistration", "clear"}

\* Mutant: getStatus is answered with success, as it is when enabled.
ExtDisabledReplyStatus(type) ==
  /\ surface = "extension"
  /\ extensionDisabled
  /\ extResponse' = Reply(type, type = "getStatus",
                          IF type = "getStatus" THEN "" ELSE "disabled")
  /\ UNCHANGED <<now, surface, pureVars, appVars, extensionDisabled, extStoredVault,
                 extStoredSecurity, encryptedVault, decryptedVault, masterSecret,
                 securityState, extInFlight, escalationWindow>>
  /\ Quiet
  /\ Handled(type, 1)
  /\ UNCHANGED <<appTimerVars, extTimerVars, extTabCalls>>

\* onMessage while EXTENSION_DISABLED (background.ts:293-306).
ExtDisabledReply(type) ==
  /\ surface = "extension"
  /\ extensionDisabled
  /\ extResponse' = Reply(type, FALSE, "disabled")
  /\ UNCHANGED <<now, surface, pureVars, appVars, extensionDisabled, extStoredVault,
                 extStoredSecurity, encryptedVault, decryptedVault, masterSecret,
                 securityState, extInFlight, escalationWindow>>
  /\ Quiet
  /\ Handled(type, 1)
  /\ UNCHANGED <<appTimerVars, extTimerVars, extTabCalls>>

\* The unlock requests still awaiting decryptVault when a lock,
\* storeEncryptedVault or clear message is processed: the handlers leave them
\* pending, and each is remembered as received before that message.
AwaitedAcross(inFlight) ==
  LET before(call) == [call EXCEPT !.acrossLock = FALSE]
      count(call) == IF call \in DOMAIN inFlight THEN inFlight[call] ELSE 0
  IN [call \in {[c EXCEPT !.acrossLock = TRUE] : c \in BagToSet(inFlight)} |->
        count(call) + count(before(call))]

\* lockVault of the worker (background.ts:196-208); a notice is sent if a
\* reason is given.
ExtLockVault(reason) ==
  /\ decryptedVault' = NoVault
  /\ masterSecret' = NoSecret
  /\ clearLockTimer
  /\ notice' = reason

\* ensureEncryptedVaultLoaded / loadFromStorage: the values after the call.
LoadedVault == IF encryptedVault = NoVault THEN extStoredVault ELSE encryptedVault
LoadedSecurity == IF encryptedVault = NoVault THEN extStoredSecurity ELSE securityState

\* vaultlight.storeEncryptedVault (background.ts:309-330), sent by
\* pushVaultToBackground of the content script and by the popup's sync.
ExtStoreEncryptedVault(encrypted) ==
  /\ surface = "extension"
  /\ ~extensionDisabled
  /\ encryptedVault' = encrypted
  /\ extStoredVault' = encrypted
  /\ ExtLockVault(NoNotice)
  /\ Handled("storeEncryptedVault", 1)
  /\ securityState' = deriveSuccess
  /\ extStoredSecurity' = deriveSuccess
  /\ escalationWindow' = WindowAfter(securityState, deriveSuccess, now)
  /\ extResponse' = Reply("storeEncryptedVault", TRUE, "")
  /\ extInFlight' = AwaitedAcross(extInFlight)
  /\ UNCHANGED <<now, surface, pureVars, appVars, appTimerVars, extensionDisabled, extTabCalls>>

\* vaultlight.getStatus (background.ts:331-346).
ExtGetStatus ==
  /\ surface = "extension"
  /\ ~extensionDisabled
  /\ encryptedVault' = LoadedVault
  /\ securityState' = LoadedSecurity
  /\ extResponse' = Reply("getStatus", TRUE, "")
  /\ UNCHANGED <<now, surface, pureVars, appVars, extensionDisabled, extStoredVault,
                 extStoredSecurity, decryptedVault, masterSecret, extInFlight,
                 escalationWindow>>
  /\ Quiet
  /\ Handled("getStatus", 1)
  /\ UNCHANGED <<appTimerVars, extTimerVars, extTabCalls>>

\* Mutant: a refusal is counted as one more failure.
ExtRefuseUnlockCounted(error) ==
  /\ extResponse' = Reply("unlock", FALSE, error)
  /\ Handled("unlock", 1)
  /\ securityState' = deriveFailure(LoadedSecurity, now)
  /\ extStoredSecurity' = deriveFailure(LoadedSecurity, now)
  /\ UNCHANGED <<extInFlight, escalationWindow>>

\* The refusals of vaultlight.unlock (background.ts:350-370): a response and
\* nothing else.
ExtRefuseUnlock(error) ==
  /\ extResponse' = Reply("unlock", FALSE, error)
  /\ Handled("unlock", 1)
  /\ securityState' = LoadedSecurity
  /\ UNCHANGED <<extStoredSecurity, extInFlight, escalationWindow>>

\* vaultlight.unlock up to the awaited decryptVault (background.ts:347-372).
ExtUnlock(masterPassword) ==
  /\ surface = "extension"
  /\ ~extensionDisabled
  /\ BagCardinality(extInFlight) < MaxInFlight
  /\ encryptedVault' = LoadedVault
  /\ UNCHANGED <<now, surface, pureVars, appVars, extensionDisabled, extStoredVault,
                 decryptedVault, masterSecret>>
  /\ IF LoadedVault = NoVault
     THEN ExtRefuseUnlock("noVault")
     ELSE IF ExtGateRequiresReset(LoadedSecurity)
     THEN ExtRefuseUnlock("shieldReset")
     ELSE IF ExtGateLocked(LoadedSecurity, now)
     THEN ExtRefuseUnlock("shieldLocked")
     ELSE /\ extInFlight' = extInFlight (+)
                 SetToBag({[pw |-> masterPassword, encrypted |-> LoadedVault,
                            acrossLock |-> FALSE]})
          /\ securityState' = LoadedSecurity
          /\ handled' = NotHandled
          /\ UNCHANGED <<extStoredSecurity, extResponse, escalationWindow>>
  /\ Quiet
  /\ UNCHANGED <<appTimerVars, extTimerVars, extTabCalls>>

\* Mutant: the copy of the envelope outlives the reset ceiling.
removeLocalCopyNever(updated) == UNCHANGED <<encryptedVault, extStoredVault>>

\* if (updated.requiresReset) { encryptedVault = null; ...
\* chrome.storage.local.remove([STORAGE_KEY]) } (background.ts:391-395)
removeLocalCopy(updated) ==
  IF updated.requiresReset
  THEN encryptedVault' = NoVault /\ extStoredVault' = NoVault
  ELSE UNCHANGED <<encryptedVault, extStoredVault>>

\* vaultlight.unlock after decryptVault settled (background.ts:372-402).
ExtUnlockSettled(call) ==
  /\ surface = "extension"
  /\ BagIn(call, extInFlight)
  /\ extInFlight' = extInFlight (-) SetToBag({call})
  /\ UNCHANGED <<now, surface, pureVars, appVars, appTimerVars, extensionDisabled, extTabCalls>>
  /\ Quiet
  /\ Handled("unlock", 1)
  /\ LET payload == decryptVault(call.pw, call.encrypted)
     IN IF ~Failed(payload)
        THEN /\ decryptedVault' = Hydrated(payload)
             /\ masterSecret' = call.pw
             /\ scheduleLock
             /\ securityState' = deriveSuccess
             /\ extStoredSecurity' = deriveSuccess
             /\ escalationWindow' = WindowAfter(securityState, deriveSuccess, now)
             /\ extResponse' = Reply("unlock", TRUE, "")
             /\ UNCHANGED <<encryptedVault, extStoredVault>>
        ELSE LET updated == deriveFailure(securityState, now)
             IN /\ decryptedVault' = NoVault
                /\ masterSecret' = NoSecret
                /\ UNCHANGED extTimerVars
                /\ securityState' = updated
                /\ extStoredSecurity' = updated
                /\ escalationWindow' = WindowAfter(securityState, updated, now)
                /\ removeLocalCopy(updated)
                /\ extResponse' = Reply("unlock", FALSE,
                      IF updated.requiresReset THEN "invalidReset"
                      ELSE IF updated.lockUntil > now THEN "invalidLocked"
                      ELSE "invalid")

\* vaultlight.lock (background.ts:406-410) through lockVault.
ExtLock ==
  /\ surface = "extension"
  /\ ~extensionDisabled
  /\ ExtLockVault("Locked manually.")
  /\ Handled("lock", 1)
  /\ extResponse' = Reply("lock", TRUE, "")
  /\ extInFlight' = AwaitedAcross(extInFlight)
  /\ UNCHANGED <<now, surface, pureVars, appVars, appTimerVars, extensionDisabled, extTabCalls,
                 extStoredVault, extStoredSecurity, encryptedVault, securityState,
                 escalationWindow>>

\* The timeout set by scheduleLock fires (background.ts:191-193).
ExtLockTimerFired ==
  /\ surface = "extension"
  /\ now \in extTimers
  /\ decryptedVault' = NoVault
  /\ masterSecret' = NoSecret
  /\ extTimers' = extTimers \ {now, lockTimer}
  /\ lockTimer' = NoTimer
  /\ notice' = "Locked automatically after inactivity."
  /\ handled' = NotHandled
  /\ UNCHANGED <<now, surface, pureVars, appVars, appTimerVars, extensionDisabled, extTabCalls,
                 extStoredVault, extStoredSecurity, encryptedVault, securityState,
                 extInFlight, extResponse, escalationWindow>>

\* vaultlight.unlock when chrome.storage.local rejects the write of the shield
\* state (background.ts:372-402): updateSecurityState assigns the state and
\* throws; thrown in the try block it lands in the catch block, thrown in the
\* catch block it ends the handler, which has no other catch, without a
\* response.
ExtUnlockStorageFailed(call) ==
  /\ surface = "extension"
  /\ BagIn(call, extInFlight)
  /\ extInFlight' = extInFlight (-) SetToBag({call})
  /\ LET payload == decryptVault(call.pw, call.encrypted)
         attempted == IF Failed(payload) THEN securityState ELSE deriveSuccess
         updated == deriveFailure(attempted, now)
     IN /\ decryptedVault' = NoVault
        /\ masterSecret' = NoSecret
        /\ IF Failed(payload) THEN UNCHANGED extTimerVars ELSE scheduleLock
        /\ securityState' = updated
        /\ escalationWindow' = WindowAfter(securityState, updated, now)
  /\ Quiet
  /\ Handled("unlock", 0)
  /\ UNCHANGED <<now, surface, pureVars, appVars, appTimerVars, extensionDisabled,
                 extTabCalls, extStoredVault, extStoredSecurity, encryptedVault,
                 extResponse>>

\* entry[property] of an object that may lack the property.
Property(object, property) ==
  IF property \in DOMAIN object THEN object[property] ELSE Undefined
\* !value of an optional string: undefined, null and "" are falsy.
Falsy(value) == value = Undefined \/ value = ""

\* The URLs and hosts of entries and tabs, each with the pieces it is spelled
\* with.
Spelling ==
  [text \in {"https://example.com/login", "https://www.example.com/login",
             "https://www.www.example.com", "example.com", "www.example.com"} |->
     CASE text = "https://example.com/login" -> <<"https://", "example.com", "/login">>
       [] text = "https://www.example.com/login" ->
            <<"https://", "www.", "example.com", "/login">>
       [] text = "https://www.www.example.com" ->
            <<"https://", "www.", "www.", "example.com">>
       [] text = "example.com" -> <<"example.com">>
       [] text = "www.example.com" -> <<"www.", "example.com">>]

\* normalizeHost of the worker on such a string: the host as a string, or
\* null, here undefined.
ExtHostOf(text) ==
  LET host == ExtNormalizeHost(Spelling[text])
  IN IF host = NoHost THEN Undefined
     ELSE CHOOSE spelled \in DOMAIN Spelling : Spelling[spelled] = host.host

\* decryptedVault.entries.find((item) => item.id === entryId), an entry found
FindEntry(payload, id) ==
  payload.entries[CHOOSE i \in DOMAIN payload.entries :
                    /\ payload.entries[i].id = id
                    /\ \A j \in 1..(i - 1) : payload.entries[j].id # id]

\* resolveEntryDomain (background.ts:243-252): the entry as the call leaves
\* it, its domain being what the call returns.
resolveEntryDomain(entry) ==
  IF /\ Falsy(Property(entry, "domain"))
     /\ ~Falsy(Property(entry, "url"))
     /\ ~Falsy(ExtHostOf(entry.url))
  THEN Spread(entry, [domain |-> ExtHostOf(entry.url)])
  ELSE entry

\* getTabHost (background.ts:273-277), null returned as undefined.
getTabHost(tab) ==
  IF Falsy(Property(tab, "url")) THEN Undefined ELSE ExtHostOf(tab.url)

\* Mutant: a tab whose host cannot be determined passes.
ensureHostMatchesUnknown(entry, host) ==
  \/ Falsy(Property(resolveEntryDomain(entry), "domain"))
  \/ Falsy(host)
  \/ resolveEntryDomain(entry).domain = host

\* ensureHostMatches (background.ts:279-288)
ensureHostMatches(entry, host) ==
  LET entryDomain == Property(resolveEntryDomain(entry), "domain")
  IN IF Falsy(entryDomain) THEN TRUE
     ELSE IF Falsy(host) THEN FALSE
     ELSE entryDomain = host

\* vaultlight.getEntries (background.ts:410-418); getEntryPreviews resolves
\* the domain of each entry in place.
ExtGetEntries ==
  /\ surface = "extension"
  /\ ~extensionDisabled
  /\ IF decryptedVault = NoVault
     THEN /\ extResponse' = Reply("getEntries", FALSE, "Vault is locked.")
          /\ UNCHANGED <<extTimerVars, decryptedVault>>
     ELSE /\ extResponse' = Reply("getEntries", TRUE, "")
          /\ decryptedVault' =
               [decryptedVault EXCEPT !.entries =
                  [i \in DOMAIN @ |-> resolveEntryDomain(@[i])]]
          /\ scheduleLock
  /\ Quiet
  /\ Handled("getEntries", 1)
  /\ UNCHANGED <<now, surface, pureVars, appVars, appTimerVars, extensionDisabled,
                 extTabCalls, extStoredVault, extStoredSecurity, encryptedVault,
                 masterSecret, securityState, extInFlight, escalationWindow>>

\* What a handler that answers, or suspends, without touching the vault
\* leaves alone.
ExtTabFrame ==
  UNCHANGED <<now, surface, pureVars, appVars, appTimerVars, extensionDisabled,
              extStoredSecurity, masterSecret, securityState, extInFlight,
              escalationWindow>>

\* createVaultEntry as generateRegistration calls it (background.ts:147-166,
\* 531-538).
createVaultEntry(id, host) ==
  [id |-> id, label |-> host, notes |-> "Email", exposure |-> PendingExposure,
   domain |-> host]

\* vaultlight.fillEntry up to the awaited chrome.tabs call
\* (background.ts:420-434).
ExtFillEntry(entryId) ==
  /\ surface = "extension"
  /\ ~extensionDisabled
  /\ IF decryptedVault = NoVault
     THEN /\ extResponse' = Reply("fillEntry", FALSE, "Vault is locked.")
          /\ Handled("fillEntry", 1)
          /\ UNCHANGED extTabCalls
     ELSE IF entryId \notin EntryIdsOf(decryptedVault)
     THEN /\ extResponse' = Reply("fillEntry", FALSE, "Entry not found.")
          /\ Handled("fillEntry", 1)
          /\ UNCHANGED extTabCalls
     ELSE /\ extTabCalls' = extTabCalls \cup
               {[type |-> "fillEntry", id |-> entryId,
                 entry |-> FindEntry(decryptedVault, entryId)]}
          /\ handled' = NotHandled
          /\ UNCHANGED extResponse
  /\ Quiet
  /\ ExtTabFrame
  /\ UNCHANGED <<extTimerVars, extStoredVault, encryptedVault, decryptedVault>>

\* No tab found, and the tabs chrome.tabs may return: on the page of the
\* entry, on a page of another host, or without a readable URL; a tab accepts
\* the autofill message or rejects it.
FillTabs ==
  {[id |-> 0]} \cup
  {[id |-> 1, url |-> url, accepts |-> accepts] :
     url \in {"https://example.com/login", "https://www.www.example.com", Undefined},
     accepts \in BOOLEAN}

\* vaultlight.fillEntry after the tab answered (background.ts:434-474). The
\* handler holds the entry it found; while the vault it was found in is open
\* that is the entry of the vault, and what the handler writes to it is written
\* to the vault. An entry without a domain is bound to the host of the tab and
\* the vault is persisted (persistDecryptedVault, background.ts:254-271); the
\* autofill message is sent, and the lock re-armed, if the tab accepts it.
ExtFillEntrySettled(call, tab) ==
  /\ surface = "extension"
  /\ call \in extTabCalls
  /\ call.type = "fillEntry"
  /\ extTabCalls' = extTabCalls \ {call}
  /\ LET open == decryptedVault # NoVault /\ call.id \in EntryIdsOf(decryptedVault)
         entry == IF open THEN FindEntry(decryptedVault, call.id) ELSE call.entry
         host == getTabHost(tab)
         resolved == resolveEntryDomain(entry)
         binds == Falsy(Property(resolved, "domain")) /\ ~Falsy(host)
         bound == IF binds THEN Spread(resolved, [domain |-> host]) ELSE resolved
         write(changed) == IF open THEN MapEntry(decryptedVault, call.id, changed)
                           ELSE decryptedVault
     IN IF tab.id = 0
        THEN /\ extResponse' = Reply("fillEntry", FALSE, "No active tab available.")
             /\ UNCHANGED <<extTimerVars, extStoredVault, encryptedVault, decryptedVault>>
        ELSE IF ~ensureHostMatches(entry, host)
        THEN /\ extResponse' = Reply("fillEntry", FALSE,
                                     "Domain mismatch. Autofill blocked for safety.")
             /\ decryptedVault' = write(resolved)
             /\ UNCHANGED <<extTimerVars, extStoredVault, encryptedVault>>
        ELSE /\ decryptedVault' = write(bound)
             /\ IF binds /\ decryptedVault # NoVault /\ masterSecret # NoSecret
                THEN LET encrypted == encryptVault(masterSecret, write(bound),
                                                   AnySalt, AnyNonce)
                     IN encryptedVault' = encrypted /\ extStoredVault' = encrypted
                ELSE UNCHANGED <<extStoredVault, encryptedVault>>
             /\ IF tab.accepts
                THEN /\ scheduleLock
                     /\ extResponse' = Reply("fillEntry", TRUE, "")
                ELSE /\ UNCHANGED extTimerVars
                     /\ extResponse' = Reply("fillEntry", FALSE,
                                             "Autofill not possible (tab protected?).")
  /\ Quiet
  /\ Handled("fillEntry", 1)
  /\ ExtTabFrame

\* vaultlight.generateRegistration up to the awaited chrome.tabs call
\* (background.ts:477-484).
ExtGenerateRegistration ==
  /\ surface = "extension"
  /\ ~extensionDisabled
  /\ IF decryptedVault = NoVault \/ masterSecret = NoSecret
     THEN /\ extResponse' = Reply("generateRegistration", FALSE,
                                  "Unlock the vault before generating credentials.")
          /\ Handled("generateRegistration", 1)
          /\ UNCHANGED extTabCalls
     ELSE /\ \A call \in extTabCalls : call.type # "generateRegistration"
          /\ extTabCalls' = extTabCalls \cup
               {[type |-> "generateRegistration", id |-> "", entry |-> NoVault]}
          /\ handled' = NotHandled
          /\ UNCHANGED extResponse
  /\ Quiet
  /\ ExtTabFrame
  /\ UNCHANGED <<extTimerVars, extStoredVault, encryptedVault, decryptedVault>>

\* vaultlight.generateRegistration after the tab answered
\* (background.ts:484-556): the entry is put first, the vault is persisted by
\* persistDecryptedVault (background.ts:254-271) and the lock is re-armed; with
\* the vault locked meanwhile, reading its entries throws. Before that there
\* is no tab, a tab without a host, a form that was not filled, or a tab that
\* rejects the message.
ExtGenerateRegistrationSettled(call, tab, id) ==
  /\ surface = "extension"
  /\ call \in extTabCalls
  /\ call.type = "generateRegistration"
  /\ extTabCalls' = extTabCalls \ {call}
  /\ CASE tab = "none" ->
            /\ extResponse' = Reply("generateRegistration", FALSE,
                                    "No active tab available.")
            /\ UNCHANGED <<extTimerVars, extStoredVault, encryptedVault, decryptedVault>>
       [] tab = "nohost" ->
            /\ extResponse' = Reply("generateRegistration", FALSE,
                                    "Unable to determine site domain.")
            /\ UNCHANGED <<extTimerVars, extStoredVault, encryptedVault, decryptedVault>>
       [] tab = "refused" ->
            /\ extResponse' = Reply("generateRegistration", FALSE,
                                    "Could not prepare registration form.")
            /\ UNCHANGED <<extTimerVars, extStoredVault, encryptedVault, decryptedVault>>
       [] tab = "protected" \/ (tab = "filled" /\ decryptedVault = NoVault) ->
            /\ extResponse' = Reply("generateRegistration", FALSE,
                                    "Registration helper failed.")
            /\ UNCHANGED <<extTimerVars, extStoredVault, encryptedVault, decryptedVault>>
       [] tab = "filled" /\ decryptedVault # NoVault ->
            /\ id \notin EntryIdsOf(decryptedVault)
            /\ LET next == PrependEntry(decryptedVault, createVaultEntry(id, "example.com"))
                   encrypted == encryptVault(masterSecret, next, AnySalt, AnyNonce)
               IN /\ decryptedVault' = next
                  /\ encryptedVault' = IF masterSecret = NoSecret THEN encryptedVault
                                       ELSE encrypted
                  /\ extStoredVault' = IF masterSecret = NoSecret THEN extStoredVault
                                       ELSE encrypted
            /\ scheduleLock
            /\ extResponse' = Reply("generateRegistration", TRUE, "")
  /\ Quiet
  /\ Handled("generateRegistration", 1)
  /\ ExtTabFrame

\* vaultlight.clear (background.ts:560-574).
ExtClear ==
  /\ surface = "extension"
  /\ ~extensionDisabled
  /\ encryptedVault' = NoVault
  /\ decryptedVault' = NoVault
  /\ extStoredVault' = NoVault
  /\ securityState' = resetStoredSecurityState
  /\ extStoredSecurity' = resetStoredSecurityState
  /\ escalationWindow' = WindowAfter(securityState, resetStoredSecurityState, now)
  /\ extResponse' = Reply("clear", TRUE, "")
  /\ clearLockTimer
  /\ Quiet
  /\ Handled("clear", 1)
  /\ extInFlight' = AwaitedAcross(extInFlight)
  /\ UNCHANGED <<now, surface, pureVars, appVars, appTimerVars, extensionDisabled, extTabCalls,
                 masterSecret>>

Next ==
  \/ Tick
  \/ \E m \in Inputs, c \in Inputs : AppHandleUnlock(m, c)
  \/ AppUnlockDecrypted
  \/ \E ok \in BOOLEAN : AppUnlockPersisted(ok)
  \/ AppLockVault
  \/ AppHandleResetVault
  \/ \E type \in MessageTypes : ExtDisabledReply(type)
  \/ \E encrypted \in Envelopes : ExtStoreEncryptedVault(encrypted)
  \/ ExtGetStatus
  \/ \E masterPassword \in Passwords : ExtUnlock(masterPassword)
  \/ \E call \in BagToSet(extInFlight) : ExtUnlockSettled(call)
  \/ ExtLock
  \/ ExtClear

Spec == Init /\ [][Next]_vars

(* ----------------------------------------------------- unlocked session *)
\* The page alone, with the handlers of the unlocked session.
SessionInit == Init /\ surface = "app"

SessionNext ==
  \/ \E m \in SessionPasswords : AppHandleUnlock(m, m)
  \/ AppUnlockDecrypted
  \/ \E ok \in BOOLEAN : AppUnlockPersisted(ok)
  \/ AppLockVault
  \/ AppHandleResetVault
  \/ \E id \in EntryIds, label \in Labels : AppHandleSaveEntry(id, label)
  \/ \E id \in EntryIds : AppHandleDeleteEntry(id)
  \/ \E id \in EntryIds, outcome \in LeakOutcomes : AppLeakCheckSettled(id, outcome)
  \/ \E next \in SessionPasswords, confirm \in SessionPasswords :
        AppHandleRotateMasterPassword(next, confirm)
  \/ \E call \in BagToSet(appPersists), ok \in BOOLEAN, leakChecksEnabled \in BOOLEAN :
        AppPersistSettled(call, ok, leakChecksEnabled)

SessionSpec == SessionInit /\ [][SessionNext]_vars

(* ------------------------------------------------- locking and idle time *)
\* Both surfaces over one password and two envelopes, one of them written by
\* a later build, with the clock in steps around the idle limits.
LaterBuildVault == [emptyVault EXCEPT !.version = DEFAULT_VAULT_VERSION + 1]
IdleEnvelopes ==
  {encryptVault("p1", payload, AnySalt, AnyNonce) : payload \in {emptyVault, LaterBuildVault}}
IdleStep == AUTO_LOCK_MS - 1000
SecondStep == 1000

IdleInit == InitFrom({NoVault} \cup IdleEnvelopes) /\ generated = GeneratorIdle

\* The popup sends a request that suspends once the one before it is answered.
ExtNoneAwaited == extInFlight = EmptyBag /\ extTabCalls = {}

\* The clock moves by a second, or by a second less than five minutes.
IdleTick ==
  \/ /\ (now % IdleStep) \div SecondStep < MaxSeconds
     /\ Advance(SecondStep)
  \/ /\ now \div IdleStep < MaxIdleSteps
     /\ Advance(IdleStep)

IdleNext ==
  \/ IdleTick
  \/ AppHandleUnlock("p1", "p1")
  \/ AppUnlockDecrypted
  \/ \E ok \in BOOLEAN : AppUnlockPersisted(ok)
  \/ AppLockVault
  \/ AppHandleActivity
  \/ \E hidden \in BOOLEAN : AppHandleVisibility(hidden)
  \/ AppIdlePoll
  \/ \E minutes \in {1, DefaultAutoLockMinutes} : AppLoadSettings(minutes)
  \/ AppHandleResetVault
  \/ \E type \in MessageTypes : ExtDisabledReply(type)
  \/ \E encrypted \in IdleEnvelopes : ExtStoreEncryptedVault(encrypted)
  \/ \E masterPassword \in Passwords : ExtNoneAwaited /\ ExtUnlock(masterPassword)
  \/ \E call \in BagToSet(extInFlight) : ExtUnlockSettled(call)
  \/ \E call \in BagToSet(extInFlight) : ExtUnlockStorageFailed(call)
  \/ ExtLock
  \/ ExtLockTimerFired
  \/ ExtGetEntries
  \/ \E entryId \in EntryIds : ExtNoneAwaited /\ ExtFillEntry(entryId)
  \/ \E call \in extTabCalls, tab \in FillTabs : ExtFillEntrySettled(call, tab)
  \/ (ExtNoneAwaited /\ ExtGenerateRegistration)
  \/ \E call \in extTabCalls, id \in EntryIds,
        tab \in {"none", "nohost", "refused", "filled", "protected"} :
        ExtGenerateRegistrationSettled(call, tab, id)
  \/ ExtClear

IdleSpec == IdleInit /\ [][IdleNext]_vars

(* ------------------------------------------------------ autofill, alone *)
\* The worker alone over envelopes synced from the page, each with one entry:
\* with a domain, with a URL only, and with neither.
FillEnvelopes ==
  {encryptVault("p1",
                [emptyVault EXCEPT !.entries =
                   <<Spread(initializeVaultEntry("e1", "a"), location)>>],
                AnySalt, AnyNonce) :
     location \in {[domain |-> "example.com"],
                   [url |-> "https://www.example.com/login"],
                   [notes |-> Undefined]}}

FillInit ==
  /\ InitFrom({NoVault})
  /\ surface = "extension"
  /\ ~extensionDisabled
  /\ generated = GeneratorIdle

FillNext ==
  \/ \E encrypted \in FillEnvelopes : ExtStoreEncryptedVault(encrypted)
  \/ (ExtNoneAwaited /\ ExtUnlock("p1"))
  \/ \E call \in BagToSet(extInFlight) : ExtUnlockSettled(call)
  \/ ExtLock
  \/ ExtGetEntries
  \/ \E entryId \in EntryIds : ExtNoneAwaited /\ ExtFillEntry(entryId)
  \/ \E call \in extTabCalls, tab \in FillTabs : ExtFillEntrySettled(call, tab)

FillSpec == FillInit /\ [][FillNext]_vars

(* ------------------------------------------------ cipher engine, alone *)
\* Sequences over S of length at most n.
SeqsUpTo(S, n) == UNION {[1..k -> S] : k \in 0..n}

\* Entries as the page builds them: notes is optional, exposure may be absent
\* in a payload written by an older build.
CipherEntries ==
  { [id |-> "e1", label |-> "a", notes |-> Undefined, exposure |-> "safe"],
    [id |-> "e2", label |-> "b", notes |-> "n", exposure |-> "pending"],
    [id |-> "e3", label |-> "a"] }

CipherPayloads ==
  {[version |-> v, entries |-> es] :
     v \in 1..MaxVersion, es \in SeqsUpTo(CipherEntries, MaxPayloadEntries)}

\* encryptVault(masterPassword, payload), the random values drawn.
CipherEncrypt(masterPassword, payload, salt, iv) ==
  /\ cipher' = [op |-> "encrypt", password |-> masterPassword,
                payload |-> payload,
                envelope |-> encryptVault(masterPassword, payload, salt, iv),
                attempt |-> "", result |-> NoVault, hydrated |-> NoVault]
  /\ UNCHANGED <<now, surface, hostCall, generated, appVars, extensionDisabled, extVars,
                 escalationWindow>>
  /\ Silent
  /\ UNCHANGED <<appTimerVars, extTimerVars, extTabCalls>>

\* The envelope comes back from storage after a build with a later envelope
\* format wrote its version field.
CipherStoredByLaterBuild(version) ==
  /\ cipher.op = "encrypt"
  /\ version > DEFAULT_VAULT_VERSION
  /\ cipher' = [cipher EXCEPT !.op = "stored", !.envelope.version = version]
  /\ UNCHANGED <<now, surface, hostCall, generated, appVars, extensionDisabled, extVars,
                 escalationWindow>>
  /\ Silent
  /\ UNCHANGED <<appTimerVars, extTimerVars, extTabCalls>>

\* decryptVault(masterPassword, envelope).
CipherDecrypt(masterPassword) ==
  /\ cipher.op \in {"encrypt", "stored"}
  /\ cipher' = [cipher EXCEPT !.op = "decrypt", !.attempt = masterPassword,
                              !.result = decryptVault(masterPassword, cipher.envelope)]
  /\ UNCHANGED <<now, surface, hostCall, generated, appVars, extensionDisabled, extVars,
                 escalationWindow>>
  /\ Silent
  /\ UNCHANGED <<appTimerVars, extTimerVars, extTabCalls>>

\* The hydration both unlock paths apply to a decrypted payload
\* (part_001:35-41, background.ts:372-376), and a hydration of its result.
CipherHydrate ==
  /\ cipher.op \in {"decrypt", "hydrate"}
  /\ ~Failed(cipher.result)
  /\ LET decrypted == IF cipher.op = "decrypt" THEN cipher.result ELSE cipher.hydrated
     IN cipher' = [cipher EXCEPT !.op = "hydrate", !.result = decrypted,
                                 !.hydrated = Hydrated(decrypted)]
  /\ UNCHANGED <<now, surface, hostCall, generated, appVars, extensionDisabled, extVars,
                 escalationWindow>>
  /\ Silent
  /\ UNCHANGED <<appTimerVars, extTimerVars, extTabCalls>>

CipherInit == Init /\ surface = "app"

CipherNext ==
  \/ \E masterPassword \in Passwords, payload \in CipherPayloads,
        salt \in getRandomValues(SaltBytes, MaxDraws),
        iv \in getRandomValues(IvBytes, MaxDraws) :
          CipherEncrypt(masterPassword, payload, salt, iv)
  \/ \E version \in 2..MaxVersion : CipherStoredByLaterBuild(version)
  \/ \E masterPassword \in Passwords : CipherDecrypt(masterPassword)
  \/ CipherHydrate

CipherSpec == CipherInit /\ [][CipherNext]_vars

(* -------------------------------------------- host normalisation, alone *)
\* normalizeHost(value) in one of its two copies.
HostNormalize(copy, value) ==
  /\ hostCall' = [op |-> "once", copy |-> copy, value |-> value,
                  result |-> NormalizeHostOf(copy, value), again |-> NoHost]
  /\ UNCHANGED <<now, surface, cipher, generated, appVars, extensionDisabled, extVars,
                 escalationWindow>>
  /\ Silent
  /\ UNCHANGED <<appTimerVars, extTimerVars, extTabCalls>>

\* normalizeHost of the string the last call returned.
HostNormalizeAgain ==
  /\ hostCall.op = "once"
  /\ "host" \in DOMAIN hostCall.result
  /\ hostCall' = [hostCall EXCEPT !.op = "twice",
                    !.again = NormalizeHostOf(hostCall.copy, hostCall.result.host)]
  /\ UNCHANGED <<now, surface, cipher, generated, appVars, extensionDisabled, extVars,
                 escalationWindow>>
  /\ Silent
  /\ UNCHANGED <<appTimerVars, extTimerVars, extTabCalls>>

HostNext ==
  \/ \E copy \in Surfaces, value \in HostInputs : HostNormalize(copy, value)
  \/ HostNormalizeAgain

HostInit == Init /\ surface = "app"

HostSpec == HostInit /\ [][HostNext]_vars

(* ---------------------------------------------------------------- claims *)
\* What the claims call "gated": the stored state demands a reset or is still
\* inside a lockout window.
AppGated == surface = "app" /\ (appSec.requiresReset \/ appSec.lockUntil > now)
ExtGated ==
  /\ surface = "extension"
  /\ ~extensionDisabled
  /\ (extStoredSecurity.requiresReset \/ extStoredSecurity.lockUntil > now)

\* An unlock attempt with well-formed input, on either surface.
AppAttempt == \E m \in Passwords : AppHandleUnlock(m, m)
ExtAttempt == \E p \in Passwords : ExtUnlock(p)

\* A step in which a surface hands work to the cipher engine.
AppCipherInvoked == appPending = NoPending /\ appPending' # NoPending
ExtCipherInvoked == BagCardinality(extInFlight') > BagCardinality(extInFlight)

\* A step that ends with the attempt refused and the refusal shown.
AppRefused == unlockError' \in {"shieldReset", "shieldLocked"}
ExtRefused ==
  /\ ~extResponse'.success
  /\ extResponse'.type = "unlock"
  /\ extResponse'.error # ""

\* C1: an unlock attempt made while the stored SecurityState has
\* requiresReset = true or lockUntil > now is refused, and no step taken from
\* such a state invokes unlockVault / decryptVault.
C1_GateBeforeCipher ==
  [][ /\ (AppGated => ~AppCipherInvoked)
      /\ ((AppGated /\ AppAttempt) => AppRefused)
      /\ (ExtGated => ~ExtCipherInvoked)
      /\ ((ExtGated /\ ExtAttempt) => ExtRefused) ]_vars

\* C1 witness: the app refused an attempt because a reset is required.
C1_Witness ==
  /\ surface = "app"
  /\ appSec.requiresReset
  /\ unlockError = "shieldReset"
  /\ appPending = NoPending

\* C2: an unlock attempt refused by the shield gate leaves failedAttempts,
\* totalFailures, shieldLevel, lockUntil, lastFailure and requiresReset as
\* they were.
C2_RefusalLeavesShield ==
  [][ /\ ((AppGated /\ AppAttempt) => (appSec' = appSec))
      /\ ((ExtGated /\ ExtAttempt) => (extStoredSecurity' = extStoredSecurity))
      /\ ((ExtGated /\ ExtAttempt) => (securityState' = extStoredSecurity)) ]_vars

\* C2 witness: the extension refused an attempt inside a lockout window, the
\* failures counted so far still on record.
C2_Witness ==
  /\ surface = "extension"
  /\ extResponse = Reply("unlock", FALSE, "shieldLocked")
  /\ extStoredSecurity.lockUntil > now
  /\ extStoredSecurity.totalFailures = 6
  /\ extInFlight = EmptyBag

\* The state three failures after the zero state, its lockout window given.
AfterThree(sec, window) ==
  (sec.totalFailures = 3) =>
     (sec.shieldLevel = 1 /\ sec.failedAttempts = 0
        /\ sec.lockUntil = sec.lastFailure + window)

\* C3 as stated: after three failures from the zero state the shield is at
\* level 1 with failedAttempts 0 and lockUntil 20 seconds after the third.
C3_Original == AfterThree(appSec, 20000) /\ AfterThree(extStoredSecurity, 20000)

\* C3: after three failures from the zero state the shield is at
\* level 1 with failedAttempts 0 and lockUntil 40 seconds after the third.
C3_ThreeFailures == AfterThree(appSec, 40000) /\ AfterThree(extStoredSecurity, 40000)

\* C3 witness: the third failure was recorded later than the first two.
C3_Witness ==
  /\ surface = "extension"
  /\ extStoredSecurity.totalFailures = 3
  /\ extStoredSecurity.lastFailure > 0
  /\ extStoredSecurity.lastFailure = now

\* The backoff curve as the specification words it, in milliseconds.
ClaimedBackoff(level) == Min((2 ^ (Min(level, 6) + 2)) * 5, 900) * 1000
ClaimedHour == 60 * 60 * 1000

\* A step that records one more failure on a surface.
AppFailure == appSec'.totalFailures = appSec.totalFailures + 1
ExtFailure == extStoredSecurity'.totalFailures = extStoredSecurity.totalFailures + 1

\* C4 as stated, for one failure taking the shield from old to new at time t:
\* reaching 3 escalates to min(level + 1, 10), clears failedAttempts and sets
\* lockUntil = t + backoff(new level); otherwise level and lockUntil stay,
\* unless the hard ceiling applies.
EscalationAsStated(old, new, t) ==
  IF old.failedAttempts + 1 >= 3
  THEN /\ new.shieldLevel = Min(old.shieldLevel + 1, 10)
       /\ new.failedAttempts = 0
       /\ new.lockUntil = t + ClaimedBackoff(new.shieldLevel)
  ELSE /\ new.shieldLevel = old.shieldLevel
       /\ new.failedAttempts = old.failedAttempts + 1
       /\ (new.requiresReset \/ new.lockUntil = old.lockUntil)

C4_Original ==
  [][ /\ (AppFailure => EscalationAsStated(appSec, appSec', now))
      /\ (ExtFailure => EscalationAsStated(extStoredSecurity, extStoredSecurity', now))
    ]_vars

\* The escalation rule with the hard ceiling overriding lockUntil on an
\* escalating failure as well: lockUntil is the later of t + backoff(new
\* level) and t + one hour.
EscalationAmended(old, new, t) ==
  IF old.failedAttempts + 1 >= 3
  THEN /\ new.shieldLevel = Min(old.shieldLevel + 1, 10)
       /\ new.failedAttempts = 0
       /\ new.lockUntil = (IF new.requiresReset
                            THEN Max(t + ClaimedBackoff(new.shieldLevel), t + ClaimedHour)
                            ELSE t + ClaimedBackoff(new.shieldLevel))
  ELSE /\ new.shieldLevel = old.shieldLevel
       /\ new.failedAttempts = old.failedAttempts + 1
       /\ new.lockUntil = (IF new.requiresReset
                            THEN Max(old.lockUntil, t + ClaimedHour)
                            ELSE old.lockUntil)

\* C4: every failure follows the escalation rule, the hard ceiling overriding
\* lockUntil whenever it applies.
C4_Escalation ==
  [][ /\ (AppFailure => EscalationAmended(appSec, appSec', now))
      /\ (ExtFailure => EscalationAmended(extStoredSecurity, extStoredSecurity', now))
    ]_vars

\* C4 witness: the app's twelfth failure escalated to level 4 and the ceiling
\* set the lockout to one hour.
C4_Witness ==
  /\ appSec.totalFailures = 12
  /\ appSec.shieldLevel = 4
  /\ appSec.failedAttempts = 0
  /\ appSec.lockUntil = appSec.lastFailure + ClaimedHour
  /\ now = appSec.lastFailure

\* C5 as stated: requiresReset holds exactly from 10 total failures in the
\* primary app and from 12 in the extension.
C5_Original ==
  /\ (appSec.requiresReset <=> (appSec.totalFailures >= 10))
  /\ (extStoredSecurity.requiresReset <=> (extStoredSecurity.totalFailures >= 12))

\* C5: requiresReset holds exactly from 12 total failures in the
\* primary app and from 10 in the extension, whatever the shield level.
C5_Ceilings ==
  /\ (appSec.requiresReset <=> (appSec.totalFailures >= 12))
  /\ (extStoredSecurity.requiresReset <=> (extStoredSecurity.totalFailures >= 10))

\* C5 witness: the app took its twelfth failure and demands a reset.
C5_Witness ==
  /\ surface = "app"
  /\ appSec.totalFailures = 12
  /\ appSec.requiresReset
  /\ unlockError = "invalidReset"

\* A step whose failure escalates the shield.
AppEscalation == AppFailure /\ appSec'.failedAttempts = 0
ExtEscalation == ExtFailure /\ extStoredSecurity'.failedAttempts = 0

\* The sixth failure in a row, against the window the third one set.
SixthFailure(old, new, t) ==
  (new.totalFailures = 6 /\ old.totalFailures = 5) =>
     (new.shieldLevel = 2 /\ escalationWindow > 0
        /\ new.lockUntil - t > escalationWindow)

\* C6: the sixth consecutive failure leaves the shield at level 2 with a
\* window strictly longer than the one the third set, and every escalation
\* sets a window at least as long as the escalation before it.
C6_LongerWindows ==
  [][ /\ (AppEscalation => (appSec'.lockUntil - now >= escalationWindow))
      /\ (ExtEscalation => (extStoredSecurity'.lockUntil - now >= escalationWindow))
      /\ SixthFailure(appSec, appSec', now)
      /\ SixthFailure(extStoredSecurity, extStoredSecurity', now)
    ]_vars

\* C6 witness: the extension's ninth failure set the third, longest window.
C6_Witness ==
  /\ surface = "extension"
  /\ extStoredSecurity.totalFailures = 9
  /\ extStoredSecurity.shieldLevel = 3
  /\ escalationWindow = extStoredSecurity.lockUntil - extStoredSecurity.lastFailure
  /\ escalationWindow > 80000

\* C7: whenever requiresReset is true, lockUntil is at least one hour after
\* the failure that was recorded last.
C7_ResetLocksAnHour ==
  /\ (appSec.requiresReset => (appSec.lockUntil >= appSec.lastFailure + 3600000))
  /\ (extStoredSecurity.requiresReset =>
        (extStoredSecurity.lockUntil >= extStoredSecurity.lastFailure + 3600000))

\* C7 witness: the app's reset-forcing failure was also an escalation, and
\* the lockout it left is longer than its level-4 backoff.
C7_Witness ==
  /\ surface = "app"
  /\ appSec.requiresReset
  /\ appSec.failedAttempts = 0
  /\ appSec.lockUntil - appSec.lastFailure > ClaimedBackoff(appSec.shieldLevel)
  /\ now > appSec.lastFailure

\* The zero state, field by field.
ZeroState(sec) ==
  /\ sec.failedAttempts = 0 /\ sec.totalFailures = 0 /\ sec.shieldLevel = 0
  /\ sec.lockUntil = 0 /\ sec.lastFailure = 0 /\ sec.requiresReset = FALSE

\* Steps in which an awaited unlock settles, and those that settle in success.
AppSettled == appPending # NoPending /\ appPending' = NoPending
ExtSettled == BagCardinality(extInFlight') < BagCardinality(extInFlight)
AppUnlockSucceeded == AppSettled /\ unlockError' = "none"
ExtUnlockSucceeded == ExtSettled /\ extResponse' = Reply("unlock", TRUE, "")

\* C8: a successful unlock leaves the persisted SecurityState at the zero
\* state.
C8_SuccessResets ==
  [][ /\ (AppUnlockSucceeded => ZeroState(appSec'))
      /\ (ExtUnlockSucceeded => ZeroState(extStoredSecurity'))
      /\ (ExtUnlockSucceeded => ZeroState(securityState'))
    ]_vars

\* C8 witness: the app was unlocked with an existing vault after a lockout
\* had been waited out.
C8_Witness ==
  /\ surface = "app"
  /\ stage = "unlocked"
  /\ loadEncryptedVault(appEnvelope) # NoVault
  /\ ~Failed(decryptVault(masterSecretRef, appEnvelope))
  /\ appPending = NoPending
  /\ ZeroState(appSec)
  /\ now >= 40000

\* The steps that reset the security state by request.
AppExplicitReset == AppHandleResetVault
ExtSync == \E e \in Envelopes : ExtStoreEncryptedVault(e)
ExtExplicitReset == ExtClear \/ ExtSync

\* C9: once requiresReset is true it stays true and no decryption starts,
\* until the security state is reset explicitly (handleResetVault in the app;
\* clear or a fresh sync in the extension).
C9_StickyReset ==
  [][ /\ ((surface = "app" /\ appSec.requiresReset) =>
             ((appSec'.requiresReset \/ AppExplicitReset) /\ ~AppCipherInvoked))
      /\ ((surface = "extension" /\ extStoredSecurity.requiresReset) =>
             ((extStoredSecurity'.requiresReset \/ ExtExplicitReset)
                /\ ~ExtCipherInvoked))
    ]_vars

\* C10: the SecurityState changes only when an unlock attempt that passed
\* the gate settles or the shield is reset explicitly; replacing, syncing or
\* deleting the stored envelope leaves it as it was.
C10_ShieldOwnSlot ==
  [][ /\ ((appSec' # appSec) => (AppSettled \/ AppExplicitReset))
      /\ ((extStoredSecurity' # extStoredSecurity) => (ExtSettled \/ ExtClear))
      /\ (ExtSync => (extStoredSecurity' = extStoredSecurity))
    ]_vars

(* ------------------------------------------- storage and unlock claims *)
\* C11: resetVault() removes the envelope record and the metadata record,
\* whatever they held, and leaves the SecurityState record as it was.
C11_ResetVaultFrame ==
  [][ /\ (resetVault(AppStorage).security = appSec)
      /\ (resetVault(AppStorage).vault = NoVault)
      /\ (resetVault(AppStorage).meta = NoVault)
      /\ (AppHandleResetVault => (appEnvelope' = NoVault /\ appMeta' = NoVault))
    ]_vars

\* C11 witness: a vault that had refused a password was deleted; both records
\* are gone.
C11_Witness ==
  /\ surface = "app"
  /\ appEnvelope = NoVault
  /\ appMeta = NoVault
  /\ stage = "creating"
  /\ unlockError = "invalid"
  /\ ZeroState(appSec)

\* Steps in which a call of unlockVault returns a new vault, returns a
\* decrypted vault, or throws.
UnlockVaultNew == appPending.op = "none" /\ appPending'.op = "persist"
UnlockVaultSettled == appPending.op = "decrypt" /\ appPending'.op = "none"
UnlockVaultDecrypted == UnlockVaultSettled /\ unlockError' = "none"
UnlockVaultThrew == UnlockVaultSettled /\ unlockError' # "none"

\* C16: unlockVault returns a new, empty vault only when no envelope record
\* exists in storage, so the persist that follows overwrites no record.
C16_NewOnlyWhenAbsent ==
  [][ UnlockVaultNew => ~vaultExists(appEnvelope) ]_vars

\* The metadata record carries the stamp t.
StampedAt(raw, t) == "lastUnlockedAt" \in DOMAIN raw /\ raw.lastUnlockedAt = t

\* C17 as stated: every call of unlockVault stamps lastUnlockedAt, whether it
\* returns a new vault, returns a decrypted vault, or fails.
C17_Original ==
  [][ (UnlockVaultNew \/ UnlockVaultSettled) => StampedAt(appMeta', now) ]_vars

\* C17: a call of unlockVault that returns, with a new or a decrypted vault,
\* stamps lastUnlockedAt; a call that fails in decryption leaves the metadata
\* record as it was.
C17_StampsOnReturn ==
  [][ /\ ((UnlockVaultNew \/ UnlockVaultDecrypted) => StampedAt(appMeta', now))
      /\ (UnlockVaultThrew => (appMeta' = appMeta)) ]_vars

\* C17 witness: the last failed unlock is later than the stamp on record.
C17_Witness ==
  /\ surface = "app"
  /\ appPending = NoPending
  /\ "lastUnlockedAt" \in DOMAIN appMeta
  /\ appSec.totalFailures > 0
  /\ appSec.lastFailure > appMeta.lastUnlockedAt

(* ------------------------------------------------- cipher engine claims *)
\* The properties an object has, and equality of payloads as structures.
Defined(object) == {f \in DOMAIN object : object[f] # Undefined}
SameObject(a, b) ==
  Defined(a) = Defined(b) /\ (\A f \in Defined(a) : a[f] = b[f])
SamePayload(a, b) ==
  /\ a.version = b.version
  /\ Len(a.entries) = Len(b.entries)
  /\ \A i \in DOMAIN a.entries : SameObject(a.entries[i], b.entries[i])

\* The last call decrypted, with the password given, the envelope encryptVault
\* returned.
DecryptedOwn(masterPassword) ==
  /\ cipher.op = "decrypt"
  /\ cipher.attempt = masterPassword
  /\ cipher.envelope.version = DEFAULT_VAULT_VERSION

C14_VersionRejected ==
  (cipher.op = "decrypt" /\ cipher.envelope.version > DEFAULT_VAULT_VERSION) =>
     Failed(cipher.result)

\* What every envelope encryptVault returns is made of.
EnvelopeFormat(saltBytes, ivBytes, minIterations, fields) ==
  (cipher.op = "encrypt") =>
     (/\ cipher.envelope.salt.bytes = saltBytes
      /\ cipher.envelope.iv.bytes = ivBytes
      /\ cipher.envelope.cipherText.key.iterations >= minIterations
      /\ DOMAIN cipher.envelope = fields)

\* C15 as stated: a 32-byte salt, a 12-byte nonce, at least 600,000
\* iterations, and the KDF parameters embedded in the envelope.
C15_Original ==
  EnvelopeFormat(32, 12, 600000, {"version", "cipherText", "iv", "salt", "kdf"})

\* C15: every encrypt call draws a 16-byte salt and a 12-byte nonce, derives
\* the key with 210,000 iterations, and returns an envelope of version,
\* cipherText, iv and salt only.
C15_EnvelopeFormat ==
  /\ EnvelopeFormat(16, 12, 210000, {"version", "cipherText", "iv", "salt"})
  /\ (cipher.op = "encrypt" => cipher.envelope.cipherText.key.iterations = 210000)

\* C15 witness: an envelope sealed with the second salt and nonce drawn.
C15_Witness ==
  /\ cipher.op = "encrypt"
  /\ cipher.envelope.salt.value = 2
  /\ cipher.envelope.iv.value = 2
  /\ cipher.envelope.salt.bytes = 16
(* ------------------------------------------------ unlocked session claims *)
\* The envelope on disk opens under the secret in memory and holds the payload
\* in memory.
DiskHoldsMemory ==
  /\ loadEncryptedVault(appEnvelope) # NoVault
  /\ ~Failed(decryptVault(masterSecretRef, loadEncryptedVault(appEnvelope)))
  /\ SamePayload(decryptVault(masterSecretRef, loadEncryptedVault(appEnvelope)),
                 vaultRef)

\* C18: in the unlocked page, whenever no persist is in flight, the envelope
\* on disk is an encryption of the payload in memory, after any sequence and
\* overlap of add, edit, delete and leak-check updates.
C18_DiskMatchesMemory ==
  (/\ surface = "app"
   /\ stage = "unlocked"
   /\ RefsSet
   /\ appPending = NoPending
   /\ appPersists = EmptyBag) => DiskHoldsMemory

\* The step takes the rotation's persistVault call out of flight.
RotationSettles(call) ==
  /\ call.kind = "rotate"
  /\ appPersists' # appPersists
  /\ appPersists' = appPersists (-) SetToBag({call})

\* C19: when the write under the new password fails, the secret in memory is
\* still the old one and the payload is unchanged; the secret is swapped only
\* in the step in which the write under it succeeded.
C19_SwapAfterWrite ==
  [][ /\ (\A call \in BagToSet(appPersists) :
            (RotationSettles(call) /\ masterChangeError' = "failed") =>
               (/\ masterSecretRef' = masterSecretRef
                /\ vaultRef' = vaultRef
                /\ appEnvelope' = appEnvelope))
      /\ ((/\ appPending' = appPending
           /\ masterSecretRef' # masterSecretRef
           /\ masterSecretRef' # NoSecret) =>
            (\E call \in BagToSet(appPersists) :
               /\ RotationSettles(call)
               /\ masterSecretRef' = call.pw
               /\ vaultRef' = vaultRef
               /\ appEnvelope' = encryptVault(call.pw, call.payload, AnySalt, AnyNonce)))
    ]_vars

\* C19 witness: a rotation failed in the unlocked page; the short password the
\* vault was created with is still the secret.
C19_Witness ==
  /\ surface = "app"
  /\ stage = "unlocked"
  /\ masterChangeError = "failed"
  /\ masterSecretRef = "p1"
  /\ appPersists = EmptyBag

\* The validation messages of the rotation form.
RotationValidationErrors == {"notUnlocked", "short", "mismatch", "same"}

\* C20: a rotation whose proposed password equals the current one or is
\* shorter than 12 characters is refused with a validation error, and changes
\* neither the stored envelope, nor the secret in memory, nor the
\* SecurityState; no write is started.
C20_RotationRefused ==
  [][ \A next \in SessionPasswords, confirm \in SessionPasswords :
        (/\ AppHandleRotateMasterPassword(next, confirm)
         /\ (next = masterSecretRef \/ Len(next) < 12)) =>
           (/\ masterChangeError' \in RotationValidationErrors
            /\ appEnvelope' = appEnvelope
            /\ appMeta' = appMeta
            /\ masterSecretRef' = masterSecretRef
            /\ appSec' = appSec
            /\ appPersists' = appPersists)
    ]_vars

\* C20 witness: the page refused a proposal equal to the current password.
C20_Witness ==
  /\ surface = "app"
  /\ stage = "unlocked"
  /\ masterChangeError = "same"
  /\ Len(masterSecretRef) >= 12

(* ---------------------------------------------------- shield state claims *)
\* The arithmetic of one SecurityState under the hard ceiling given.
ShieldShape(sec, ceiling) ==
  /\ sec.failedAttempts \in {0, 1, 2}
  /\ sec.totalFailures = 3 * sec.shieldLevel + sec.failedAttempts
  /\ sec.shieldLevel <= 10
  /\ (sec.requiresReset <=> (sec.totalFailures >= ceiling))

HasExposure(entry) == "exposure" \in DOMAIN entry /\ entry.exposure # Undefined

\* C27: after an unlock every entry of the payload has a defined exposure;
\* hydration sets the pending sentinel only on entries that lack one, leaves
\* an existing exposure and every other field unchanged, preserves the count
\* and order of the entries, and is idempotent.
C27_Hydration ==
  (cipher.op = "hydrate") =>
    LET before == cipher.result.entries
        after == cipher.hydrated.entries
    IN /\ cipher.hydrated.version = cipher.result.version
       /\ Len(after) = Len(before)
       /\ \A i \in DOMAIN before :
            /\ HasExposure(after[i])
            /\ (HasExposure(before[i]) => (after[i] = before[i]))
            /\ (~HasExposure(before[i]) =>
                  (/\ after[i].exposure = "pending"
                   /\ DOMAIN after[i] = DOMAIN before[i] \cup {"exposure"}
                   /\ \A k \in DOMAIN before[i] \ {"exposure"} :
                        after[i][k] = before[i][k]))
       /\ hydrateExposures(after) = after

\* C27 witness: a decrypted payload of two entries, the first with an exposure
\* that is not the sentinel and the second without one, was hydrated.
C27_Witness ==
  /\ cipher.op = "hydrate"
  /\ Len(cipher.result.entries) = 2
  /\ HasExposure(cipher.result.entries[1])
  /\ cipher.result.entries[1].exposure = "safe"
  /\ ~HasExposure(cipher.result.entries[2])
  /\ cipher.hydrated # cipher.result

(* -------------------------------------------------------- host claims *)
\* C28: normalizeHost is idempotent: whenever normalizeHost(x) is a string h,
\* normalizeHost(h) = h, hosts with repeated leading "www." labels included.
C28_Idempotent ==
  (hostCall.op = "twice") => (hostCall.again = hostCall.result)

(* ------------------------------------------------- locking and idle claims *)
InactivityToast == "Vault locked automatically after inactivity."
HiddenToast == "Vault locked automatically (tab hidden)."
InactivityNotice == "Locked automatically after inactivity."

\* C21: a session of the page that became unlocked at t = 0 with a 5-minute
\* idle threshold and sees no further interaction is still unlocked at 4:59
\* and locked by 5:01. For every threshold: the idle poll locks no session
\* that was idle for less than the threshold, and a session whose last
\* interaction is the one that unlocked it is never unlocked with more than
\* the threshold behind it.
C21_IdleLock ==
  [][/\ (notice' = InactivityToast => (now - lastInteractionRef >= autoLockMs))
     /\ ((surface = "app" /\ stage' = "unlocked" /\ lastInteractionRef' = pollStart')
           => (now' - lastInteractionRef' <= autoLockMinutes' * 60 * 1000))]_vars

\* A session of five minutes, unlocked at 0 and left alone, as the poll
\* locked it at 5:00.
C21_Witness ==
  /\ notice = InactivityToast
  /\ autoLockMinutes = 5
  /\ lastInteractionRef = 0
  /\ now = 5 * 60 * 1000
  /\ stage = "locked"

\* C22: while the page is unlocked, the document becoming hidden locks at
\* once: the master secret and the payload are dropped and the stage is no
\* longer "unlocked", however little idle time has passed and whatever the
\* threshold is.
C22_HiddenLocks ==
  [][/\ ((surface = "app" /\ stage = "unlocked") => ENABLED AppHandleVisibility(TRUE))
     /\ (AppHandleVisibility(TRUE)
           => (/\ masterSecretRef' = NoSecret
               /\ vaultRef' = NoVault
               /\ stage' # "unlocked"))]_vars

\* The tab was hidden in the instant of the last interaction.
C22_Witness ==
  /\ notice = HiddenToast
  /\ lastInteractionRef = now
  /\ now > 0
  /\ masterSecretRef = NoSecret
  /\ stage = "locked"

\* C23: lockVault of the page, for every reason (manual, inactivity, tab
\* hidden, vault reset), sets the master secret to empty and the payload
\* reference to null in that step, and sets the stage to "locked" if an
\* envelope is in storage at that moment and to "creating" otherwise.
C23_LockDropsSecrets ==
  [][(surface = "app" /\ notice' # NoNotice)
       => (/\ masterSecretRef' = NoSecret
           /\ vaultRef' = NoVault
           /\ stage' = (IF appEnvelope' # NoVault THEN "locked" ELSE "creating"))]_vars

\* The vault was locked by hand while the first write of a new vault was
\* awaited: no envelope is in storage, and the stage is "creating".
C23_Witness ==
  /\ notice = "Vault locked."
  /\ appPending.op = "persist"
  /\ appEnvelope = NoVault
  /\ stage = "creating"
  /\ masterSecretRef = NoSecret
  /\ vaultRef = NoVault

\* The session of a surface is locked.
AlreadyLocked ==
  IF surface = "app" THEN stage # "unlocked" ELSE decryptedVault = NoVault

\* C24: the lock operation called while the session is already locked is a
\* no-op: it changes no state and sends no further notification, neither a
\* toast of the page nor a lock-notice of the worker.
C24_LockWhenLockedIsNoOp ==
  [][AlreadyLocked
       => (/\ notice' = NoNotice
           /\ (handled'.type = "lock"
                 => UNCHANGED <<decryptedVault, masterSecret, lockTimer, extTimers>>))]_vars

\* The messages of an unlock that failed for its password.
InvalidPasswordErrors == {"invalid", "invalidLocked", "invalidReset"}

\* The awaited decryptVault of an unlock on the page, or of the request of
\* the worker that is answered in this step, found a payload of another
\* version.
AppFoundOtherVersion ==
  /\ surface = "app"
  /\ appPending.op = "decrypt"
  /\ appPending' = NoPending
  /\ decryptVault(appPending.pw, appPending.encrypted) = UnsupportedVersion
ExtFoundOtherVersion ==
  /\ surface = "extension"
  /\ handled'.type = "unlock"
  /\ handled'.responses = 1
  /\ \E call \in BagToSet(extInFlight) :
        /\ extInFlight' = extInFlight (-) SetToBag({call})
        /\ decryptVault(call.pw, call.encrypted) = UnsupportedVersion

\* C25: a decrypted payload whose version is not the supported one is
\* reported as an outcome of its own: it is not presented as a failure of the
\* password.
C25_VersionSurfacedDistinctly ==
  [][/\ (AppFoundOtherVersion => (unlockError' \notin InvalidPasswordErrors))
     /\ (ExtFoundOtherVersion => (extResponse'.error \notin InvalidPasswordErrors))]_vars

\* C26: in the worker, every request of a handled type yields exactly one
\* response with a boolean success, and a response with success = false
\* carries a non-empty error.
C26_OneResponse ==
  (handled.type # "none")
    => (/\ handled.responses = 1
        /\ extResponse.type = handled.type
        /\ extResponse.success \in BOOLEAN
        /\ (~extResponse.success => (extResponse.error # "")))

\* The steps that use the unlocked vault of the worker with success, and the
\* steps that lock it.
ArmTypes == {"unlock", "getEntries", "fillEntry", "generateRegistration"}
ExtArmStep ==
  /\ handled'.type \in ArmTypes
  /\ handled'.responses = 1
  /\ extResponse'.success
ExtLockStep ==
  \/ handled'.type \in {"lock", "storeEncryptedVault"}
  \/ notice' = InactivityNotice

C31_EnvelopeUnderSecret ==
  (/\ surface = "app"
   /\ stage = "unlocked"
   /\ appPending = NoPending
   /\ appPersists = EmptyBag)
    => (/\ loadEncryptedVault(appEnvelope) # NoVault
        /\ ~Failed(decryptVault(masterSecretRef, loadEncryptedVault(appEnvelope))))

\* C32: in the page, whenever the stage is not "unlocked", the master secret
\* in memory is empty and the payload reference is null, after any sequence of
\* unlock attempts, locks and persist outcomes.
C32_SecretsOnlyWhenUnlocked ==
  (surface = "app" /\ stage # "unlocked")
    => (masterSecretRef = NoSecret /\ vaultRef = NoVault)

\* C33: in the page, once no unlock or persist call is in flight, stage
\* "creating" implies that storage holds no envelope and stage "locked" that
\* it holds one, also when a lock fires while the first persist of a new vault
\* is in flight.
C33_StageMatchesStorage ==
  (/\ surface = "app"
   /\ appPending = NoPending
   /\ appPersists = EmptyBag)
    => (/\ (stage = "creating" => ~vaultExists(appEnvelope))
        /\ (stage = "locked" => vaultExists(appEnvelope)))

(* ------------------------------------------------ worker, locked for good *)
\* The worker holds neither the decrypted vault nor the master secret.
ExtHoldsNothing == decryptedVault = NoVault /\ masterSecret = NoSecret

\* C34: once a lock, storeEncryptedVault or clear message is processed, the
\* decrypted vault and the master secret are null and stay null until an
\* unlock request received after that message succeeds: the step that
\* processes the message leaves both null, nothing but the answer to a
\* successful unlock sets either, and an unlock that was awaiting decryptVault
\* when the message was processed, no unlock having succeeded since, leaves
\* both null when it settles.
C34_LockedUntilLaterUnlock ==
  [][(surface = "extension" /\ ~extensionDisabled)
       => (/\ (handled'.type \in {"lock", "storeEncryptedVault", "clear"}
                 => ExtHoldsNothing')
           /\ ((ExtHoldsNothing /\ ~ExtHoldsNothing')
                 => (handled'.type = "unlock" /\ extResponse'.success))
           /\ (\A call \in BagToSet(extInFlight) :
                 (/\ call.acrossLock
                  /\ lockTimer = NoTimer
                  /\ extInFlight' = extInFlight (-) SetToBag({call}))
                   => ExtHoldsNothing'))]_vars

\* The worker was locked and no unlock has succeeded since: a successful
\* unlock sets the lock timer, and only a lock clears it.
ExtLockedSince == decryptedVault = NoVault /\ lockTimer = NoTimer

\* C35: no autofill message with an entry's password is sent to a tab after
\* a lock was processed and before the next successful unlock, even if the
\* fillEntry request was received while the vault was unlocked. The message
\* is sent in the step that answers fillEntry with success.
C35_NoAutofillAfterLock ==
  [][(/\ surface = "extension"
      /\ ~extensionDisabled
      /\ handled'.type = "fillEntry"
      /\ extResponse'.success) => ~ExtLockedSince]_vars

\* C36: in the worker the master secret is non-null only while the decrypted
\* vault is non-null: after every lock, clear, storeEncryptedVault and failed
\* unlock the master secret is null.
C36_SecretOnlyWithVault ==
  (surface = "extension" /\ ~extensionDisabled)
    => (masterSecret # NoSecret => decryptedVault # NoVault)

(* ------------------------------------------------- worker, reset ceiling *)
\* The worker has no copy of the envelope, in memory or in storage.
ExtNoCopy == encryptedVault = NoVault /\ extStoredVault = NoVault

\* C37: when a failed unlock makes requiresReset true, the copy of the
\* envelope is removed from the worker; from then on every unlock request is
\* answered with a failure, no decryption started, until an envelope is stored
\* again. In steps: the failure that sets requiresReset leaves no copy; while
\* there is no copy a request starts no decryption and its answer is a
\* failure; and a copy appears only in a step that stores an envelope.
C37_ResetRemovesCopy ==
  [][(surface = "extension" /\ ~extensionDisabled)
       => (/\ ((~securityState.requiresReset /\ securityState'.requiresReset)
                 => (/\ ExtNoCopy'
                     /\ handled'.type = "unlock"
                     /\ ~extResponse'.success))
           /\ (ExtNoCopy
                 => (/\ ~ExtCipherInvoked
                     /\ ((handled'.type = "unlock" /\ extInFlight' = extInFlight)
                           => ~extResponse'.success)))
           /\ ((ExtNoCopy /\ ~ExtNoCopy')
                 => (handled'.type \in {"storeEncryptedVault", "generateRegistration"})))]_vars

\* C37 witness: the ceiling was reached, the copy is gone, and a later unlock
\* request was refused for want of a vault.
C37_Witness ==
  /\ surface = "extension"
  /\ ~extensionDisabled
  /\ securityState.requiresReset
  /\ ExtNoCopy
  /\ extInFlight = EmptyBag
  /\ handled.type = "unlock"
  /\ extResponse = Reply("unlock", FALSE, "noVault")

(* ------------------------------------------------------ worker, disabled *)
\* C38: with EXTENSION_DISABLED set, every message of every type is answered
\* once, with success = false and the disabled message, no handler is left
\* suspended, and no step changes the vault or the master secret in memory,
\* the SecurityState, the lock timer or a key of chrome.storage.local.
C38_DisabledAnswersOnly ==
  [][(surface = "extension" /\ extensionDisabled)
       => (/\ (handled'.type # "none"
                 => (/\ handled'.type \in MessageTypes
                     /\ handled'.responses = 1
                     /\ extResponse' = Reply(handled'.type, FALSE, "disabled")))
           /\ extInFlight' = EmptyBag
           /\ extTabCalls' = {}
           /\ UNCHANGED <<encryptedVault, decryptedVault, masterSecret, securityState,
                          lockTimer, extTimers, extStoredVault, extStoredSecurity>>)]_vars

\* C38 witness: the disabled worker answered an unlock request; it holds what
\* it held when it was loaded.
C38_Witness ==
  /\ surface = "extension"
  /\ extensionDisabled
  /\ handled = [type |-> "unlock", responses |-> 1]
  /\ extResponse = Reply("unlock", FALSE, "disabled")
  /\ decryptedVault = NoVault
  /\ masterSecret = NoSecret
  /\ extStoredVault = NoVault
  /\ securityState = DEFAULT_SECURITY_STATE

MaxPasswordLength == 3
MaxRandomValue == 5

\* The character groups, each cut to two characters; every group but the
\* symbols keeps one of its ambiguous characters.
LOWERCASE == <<"a", "l">>
UPPERCASE == <<"A", "I">>
DIGITS == <<"2", "1">>
SYMBOLS == <<"!", "?">>
AMBIGUOUS == {"I", "l", "1", "O", "0"}

PasswordOptions ==
  [length : 0..MaxPasswordLength, useLowercase : BOOLEAN, useUppercase : BOOLEAN,
   useDigits : BOOLEAN, useSymbols : BOOLEAN, avoidAmbiguous : BOOLEAN]

\* pool.includes(char) on a string of single characters.
Includes(pool, char) == \E i \in DOMAIN pool : pool[i] = char

filterAmbiguous(source, avoid) ==
  IF ~avoid THEN source
  ELSE SelectSeq(source, LAMBDA char : char \notin AMBIGUOUS)

\* pools.filter(pool => pool.length > 0) over the groups the options select.
FilteredPools(options) ==
  LET push(use, source) ==
        IF use THEN <<filterAmbiguous(source, options.avoidAmbiguous)>> ELSE <<>>
      pools == push(options.useLowercase, LOWERCASE)
               \o push(options.useUppercase, UPPERCASE)
               \o push(options.useDigits, DIGITS)
               \o push(options.useSymbols, SYMBOLS)
  IN SelectSeq(pools, LAMBDA pool : Len(pool) > 0)

\* filteredPools.join("")
RECURSIVE JoinPools(_)
JoinPools(pools) ==
  IF pools = <<>> THEN <<>> ELSE Head(pools) \o JoinPools(Tail(pools))

\* The forEach over the pools, from poolIndex on: a pool no character of chars
\* belongs to overwrites the slot of its own index.
RECURSIVE EnsurePools(_, _, _, _)
EnsurePools(chars, filteredPools, indices, poolIndex) ==
  IF poolIndex >= Len(filteredPools) THEN chars
  ELSE LET pool == filteredPools[poolIndex + 1]
           hasChar == \E i \in DOMAIN chars : Includes(pool, chars[i])
           randomIndex == indices[poolIndex + 1] % Len(pool)
           slot == poolIndex % Len(chars)
           next == IF poolIndex >= Len(chars) \/ hasChar THEN chars
                   ELSE [chars EXCEPT ![slot + 1] = pool[randomIndex + 1]]
       IN EnsurePools(next, filteredPools, indices, poolIndex + 1)

\* generatePassword(options), with indices the values getRandomValues wrote;
\* the string returned is given as the sequence of its characters.
generatePassword(options, indices) ==
  LET filteredPools == FilteredPools(options)
      combined == JoinPools(filteredPools)
      chars == [i \in 1..options.length |-> combined[(indices[i] % Len(combined)) + 1]]
  IN IF Len(filteredPools) = 0
       THEN [error |-> "At least one character group must be selected."]
       ELSE [value |-> EnsurePools(chars, filteredPools, indices, 0)]

\* The options of a call and the values getRandomValues will write for it.
GeneratorInputs ==
  UNION {{[op |-> "options", options |-> options, indices |-> indices] :
            indices \in [1..options.length -> 0..MaxRandomValue]} :
         options \in PasswordOptions}

\* The call of generatePassword with the options at hand.
GeneratePassword ==
  /\ generated.op = "options"
  /\ generated' = [op |-> "generatePassword", options |-> generated.options,
                   indices |-> generated.indices,
                   result |-> generatePassword(generated.options, generated.indices)]
  /\ UNCHANGED <<now, surface, cipher, hostCall, appVars, extensionDisabled, extVars,
                 escalationWindow>>
  /\ Silent
  /\ UNCHANGED <<appTimerVars, extTimerVars, extTabCalls>>

GeneratorInit ==
  /\ InitFrom({NoVault})
  /\ surface = "app"
  /\ generated \in GeneratorInputs

GeneratorSpec == GeneratorInit /\ [][GeneratePassword]_vars

\* The call returned a string.
Generated == generated.op = "generatePassword" /\ "value" \in DOMAIN generated.result

\* C40: generatePassword returns a string of exactly options.length characters
\* drawn only from the selected pools, and whenever options.length is at least
\* the number of selected non-empty pools the result holds at least one
\* character of each selected pool.
C40_GeneratedPassword ==
  Generated =>
    LET options == generated.options
        pools == FilteredPools(options)
        chars == generated.result.value
    IN /\ Len(chars) = options.length
       /\ \A i \in DOMAIN chars : \E p \in DOMAIN pools : Includes(pools[p], chars[i])
       /\ (options.length >= Len(pools)
             => \A p \in DOMAIN pools : \E i \in DOMAIN chars : Includes(pools[p], chars[i]))

====
